---- MODULE Spec2Model ----
(***************************************************************************)
(* State-machine model of the Node-RED energy management function node    *)
(* (src/export_control.js).  One Tick step is one execution of the node's  *)
(* "MAIN EXECUTION" block.                                                  *)
(*                                                                         *)
(* Units.  The clock counts minutes (Date.now() in the source counts ms;   *)
(* every duration the source compares is a whole number of minutes).       *)
(* Energy is kept in Wh: the source divides export_daily by 1000 and       *)
(* works in kWh, the model multiplies the kWh constants by 1000 instead.   *)
(* Targets are exact rationals [n, d]; the source uses doubles, whose     *)
(* rounding is modelled where it decides a branch (getCurrentMonthTarget). *)
(***************************************************************************)
EXTENDS Integers, Sequences, FiniteSets, TLC

\* ------------------------------------------------------------------------
\* CONFIG (src/export_control.js, lines 25-79)
\* ------------------------------------------------------------------------
max_soc_threshold == 99
min_soc_threshold == 35
hws_power_rating == 3000
hws_soc_drop_threshold == 2
hws_generation_drop_threshold == 1000
hws_cooldown_period == 10
export_target_percentage == 40
battery_charging_threshold == 50
strong_charging_threshold == 1000
min_generation_for_export == 500
min_generation_to_stay_export == 300
evening_self_consume_soc_threshold == 35
state_change_debounce_time == 5
max_reasonable_soc == 105
min_reasonable_soc == -5
max_reasonable_power == 50000
significant_export_threshold == 2000
night_start_hour == 20
night_end_hour == 6
max_log_entries == 100
log_cleanup_interval_hours == 24
log_max_age_days == 7
catchup_days == 5

\* Other literals of the source.
generation_suspicious_below == 500
history_days == 30
default_soc == 50
max_daily_export_kwh == 200
local_offset_hours == 10
WhPerKWh == 1000

\* Monthly export targets, Wh per day (kWh * 1000).
MONTHLY_EXPORT_TARGETS ==
    << 25500, 30500, 24500, 23500, 23200, 22800,
       23500, 24300, 31100, 38400, 35200, 34900 >>

\* ------------------------------------------------------------------------
\* STATES
\* ------------------------------------------------------------------------
EXPORT_PRIORITY == "EXPORT_PRIORITY"
BATTERY_STORAGE == "BATTERY_STORAGE"
LOAD_MANAGEMENT == "LOAD_MANAGEMENT"
SELF_CONSUME == "SELF_CONSUME"
SAFE_MODE == "SAFE_MODE"
STATES == { EXPORT_PRIORITY, BATTERY_STORAGE, LOAD_MANAGEMENT, SELF_CONSUME, SAFE_MODE }

\* A key of the context store that was never written (global.get gives undefined).
Absent == "absent"

\* ------------------------------------------------------------------------
\* Model bounds
\* ------------------------------------------------------------------------
\* Executions explored from each initial state (the initial states are the
\* first run and the states a set of earlier runs of up to three executions
\* leads to, see EarlierRuns).
MaxTicks == 1

\* Clock units.
MinuteUnits == 1
HourUnits == 60 * MinuteUnits
DayUnits == 24 * HourUnits

\* The clock of the start state: 31 July, 13:00 local time, of a 365-day year.
StartDay == 211
StartHour == 13
StartClock == StartDay * DayUnits + StartHour * HourUnits - local_offset_hours * HourUnits

\* Time between two executions of the node.
Steps == { 1 * MinuteUnits, 5 * MinuteUnits }

VARIABLES
    now,                        \* Date.now() of the latest tick
    ticks,                      \* executions so far (bounded by MaxTicks)
    telemetry,                  \* the input globals read by the latest tick
    energy_management_state,    \* global 'energy_management_state'
    state_change_request,       \* globals 'state_change_request_<F>_to_<T>'
    hws_status,                 \* global 'hws_status'
    hws_last_off_time,          \* global 'hws_last_off_time'
    export_history_30days,      \* global 'export_history_30days' (file)
    target_calculation,         \* global 'target_calculation' (file)
    last_daily_summary_date,    \* global 'last_daily_summary_date' (file)
    last_log_cleanup,           \* global 'last_log_cleanup' (file)
    energy_management_logs,     \* global 'energy_management_logs' (file)
    msg                         \* what the latest tick returned

vars == << now, ticks, telemetry, energy_management_state, state_change_request,
           hws_status, hws_last_off_time, export_history_30days, target_calculation,
           last_daily_summary_date, last_log_cleanup, energy_management_logs, msg >>

\* The persisted keys as one record, threaded through the helper functions in
\* the order the source executes them.
Store ==
    [ state |-> energy_management_state,
      request |-> state_change_request,
      hws_status |-> hws_status,
      hws_last_off_time |-> hws_last_off_time,
      history |-> export_history_30days,
      target_calculation |-> target_calculation,
      last_daily_summary_date |-> last_daily_summary_date,
      last_log_cleanup |-> last_log_cleanup,
      logs |-> energy_management_logs ]

\* ------------------------------------------------------------------------
\* Local time helpers (fixed +10:00 offset)
\* ------------------------------------------------------------------------
getLocalDate(n) == n + local_offset_hours * HourUnits

\* The local date as a day number (the source formats it as YYYY-MM-DD).
getLocalDateString(n) == getLocalDate(n) \div DayUnits

getHours(n) == (getLocalDate(n) \div HourUnits) % 24

\* Month (1..12) of a day number, 365-day year starting 1 January.
MonthOfDay(d) ==
    LET y == d % 365 IN
    IF y < 31 THEN 1 ELSE IF y < 59 THEN 2 ELSE IF y < 90 THEN 3
    ELSE IF y < 120 THEN 4 ELSE IF y < 151 THEN 5 ELSE IF y < 181 THEN 6
    ELSE IF y < 212 THEN 7 ELSE IF y < 243 THEN 8 ELSE IF y < 273 THEN 9
    ELSE IF y < 304 THEN 10 ELSE IF y < 334 THEN 11 ELSE 12

getMonth(n) == MonthOfDay(getLocalDateString(n))

isNightTime(n) ==
    LET currentHour == getHours(n) IN
    IF night_start_hour > night_end_hour
    THEN currentHour >= night_start_hour \/ currentHour < night_end_hour
    ELSE currentHour >= night_start_hour /\ currentHour < night_end_hour

\* ------------------------------------------------------------------------
\* Logging
\* ------------------------------------------------------------------------
LogEntry(n, logType, message, priority) ==
    [ timestamp |-> n, type |-> logType, message |-> message,
      priority |-> priority, date |-> getLocalDateString(n) ]

\* logs.slice(-k)
SliceLast(logs, k) ==
    IF Len(logs) > k THEN SubSeq(logs, Len(logs) - k + 1, Len(logs)) ELSE logs

RECURSIVE addPersistentLog(_, _, _, _, _)
RECURSIVE cleanupOldLogs(_, _)

\* Variant of cleanupOldLogs without the test of the cleanup interval.
cleanupOldLogs_EveryAppend(st, n) ==
    LET maxAge == log_max_age_days * DayUnits
        cutoffTime == n - maxAge
        kept == SelectSeq(st.logs, LAMBDA log : log.timestamp > cutoffTime)
        st1 == IF Len(kept) < Len(st.logs)
               THEN addPersistentLog([st EXCEPT !.logs = kept], n, "SYSTEM", "Log cleanup", "low")
               ELSE st
    IN  [st1 EXCEPT !.last_log_cleanup = n]

\* Lines 139-177.
cleanupOldLogs(st, n) ==
    LET cleanupInterval == log_cleanup_interval_hours * HourUnits
        maxAge == log_max_age_days * DayUnits
        cutoffTime == n - maxAge
        kept == SelectSeq(st.logs, LAMBDA log : log.timestamp > cutoffTime)
        st1 == IF Len(kept) < Len(st.logs)
               THEN addPersistentLog([st EXCEPT !.logs = kept], n, "SYSTEM", "Log cleanup", "low")
               ELSE st
    IN  IF n - st.last_log_cleanup < cleanupInterval
        THEN st
        ELSE [st1 EXCEPT !.last_log_cleanup = n]

\* Variant of addPersistentLog that keeps the oldest entries of a full log.
addPersistentLog_KeepsOldest(st, n, logType, message, priority) ==
    LET pushed == Append(st.logs, LogEntry(n, logType, message, priority))
        logs == IF Len(pushed) > max_log_entries
                THEN SubSeq(pushed, 1, max_log_entries)
                ELSE pushed
    IN  cleanupOldLogs([st EXCEPT !.logs = logs], n)

\* Lines 97-137.
addPersistentLog(st, n, logType, message, priority) ==
    LET pushed == Append(st.logs, LogEntry(n, logType, message, priority))
        logs == IF Len(pushed) > max_log_entries
                THEN SliceLast(pushed, max_log_entries)
                ELSE pushed
    IN  cleanupOldLogs([st EXCEPT !.logs = logs], n)

logPerformanceAlert(st, n, alertType) ==
    addPersistentLog(st, n, "PERFORMANCE_ALERT", alertType, "high")

logSystemInfo(st, n, message) ==
    addPersistentLog(st, n, "SYSTEM_INFO", message, "low")

\* ------------------------------------------------------------------------
\* Debouncing
\* ------------------------------------------------------------------------
Transitions == STATES \X STATES

\* Variant of checkStateChangeDebounce that approves a stored request at once.
checkStateChangeDebounce_NoWait(st, n, targetState, currentState) ==
    LET stateChangeKey == << currentState, targetState >>
        lastRequestTime == st.request[stateChangeKey]
    IN  IF targetState = currentState
        THEN [ allowed |-> TRUE, reason |-> "No state change required", st |-> st ]
        ELSE IF lastRequestTime = 0
        THEN [ allowed |-> FALSE, reason |-> "Debouncing state change",
               st |-> addPersistentLog([st EXCEPT !.request[stateChangeKey] = n], n,
                                       "DEBOUNCE", "State change request started", "normal") ]
        ELSE [ allowed |-> TRUE, reason |-> "Debounce period satisfied",
               st |-> addPersistentLog([st EXCEPT !.request[stateChangeKey] = 0], n,
                                       "DEBOUNCE", "State change approved", "normal") ]

\* Variant of checkStateChangeDebounce that waits strictly longer than the
\* debounce time.
checkStateChangeDebounce_StrictWait(st, n, targetState, currentState) ==
    LET stateChangeKey == << currentState, targetState >>
        lastRequestTime == st.request[stateChangeKey]
        debounceMs == state_change_debounce_time * MinuteUnits
        timeSinceRequest == n - lastRequestTime
    IN  IF targetState = currentState
        THEN [ allowed |-> TRUE, reason |-> "No state change required", st |-> st ]
        ELSE IF lastRequestTime = 0
        THEN [ allowed |-> FALSE, reason |-> "Debouncing state change",
               st |-> addPersistentLog([st EXCEPT !.request[stateChangeKey] = n], n,
                                       "DEBOUNCE", "State change request started", "normal") ]
        ELSE IF timeSinceRequest > debounceMs
        THEN [ allowed |-> TRUE, reason |-> "Debounce period satisfied",
               st |-> addPersistentLog([st EXCEPT !.request[stateChangeKey] = 0], n,
                                       "DEBOUNCE", "State change approved", "normal") ]
        ELSE [ allowed |-> FALSE, reason |-> "Debouncing (remaining)", st |-> st ]

\* Returns [allowed, reason, st].
checkStateChangeDebounce(st, n, targetState, currentState) ==
    LET stateChangeKey == << currentState, targetState >>
        lastRequestTime == st.request[stateChangeKey]
        debounceMs == state_change_debounce_time * MinuteUnits
        timeSinceRequest == n - lastRequestTime
    IN  IF targetState = currentState
        THEN [ allowed |-> TRUE, reason |-> "No state change required", st |-> st ]
        ELSE IF lastRequestTime = 0
        THEN [ allowed |-> FALSE, reason |-> "Debouncing state change",
               st |-> addPersistentLog([st EXCEPT !.request[stateChangeKey] = n], n,
                                       "DEBOUNCE", "State change request started", "normal") ]
        ELSE IF timeSinceRequest >= debounceMs
        THEN [ allowed |-> TRUE, reason |-> "Debounce period satisfied",
               st |-> addPersistentLog([st EXCEPT !.request[stateChangeKey] = 0], n,
                                       "DEBOUNCE", "State change approved", "normal") ]
        ELSE [ allowed |-> FALSE, reason |-> "Debouncing (remaining)", st |-> st ]

\* Variant of clearOtherStateChangeRequests that leaves the other entries.
clearOtherStateChangeRequests_KeepsAll(st, fromState, toState) == st

\* Lines 251-261.
clearOtherStateChangeRequests(st, fromState, toState) ==
    [st EXCEPT !.request =
        [ k \in Transitions |-> IF k = << fromState, toState >> THEN st.request[k] ELSE 0 ]]

\* ------------------------------------------------------------------------
\* Exact rationals for the export target
\* ------------------------------------------------------------------------
Abs(x) == IF x < 0 THEN -x ELSE x
Min(a, b) == IF a < b THEN a ELSE b
Max(a, b) == IF a > b THEN a ELSE b

RECURSIVE Gcd(_, _)
Gcd(a, b) == IF b = 0 THEN a ELSE Gcd(b, a % b)

\* n/d in lowest terms, d > 0.
Rat(num, den) ==
    LET g == Gcd(Abs(num), den) IN
    IF g = 0 THEN [ n |-> 0, d |-> 1 ] ELSE [ n |-> num \div g, d |-> den \div g ]

\* x >= r and 100 * x / r < pct, for an integer x and a rational r > 0.
GeqRat(x, r) == x * r.d >= r.n
PercentOfRatBelow(x, r, pct) == 100 * x * r.d < pct * r.n

\* ------------------------------------------------------------------------
\* Export history and adaptive target
\* ------------------------------------------------------------------------
RECURSIVE SumExport(_)
SumExport(h) == IF h = << >> THEN 0 ELSE Head(h).export + SumExport(Tail(h))

\* Stable insertion of an entry into a sequence sorted by date.
RECURSIVE InsertByDate(_, _)
InsertByDate(h, e) ==
    IF h = << >> THEN << e >>
    ELSE IF Head(h).date <= e.date
         THEN << Head(h) >> \o InsertByDate(Tail(h), e)
         ELSE << e >> \o h

\* Array.prototype.sort with the date comparator.
RECURSIVE SortByDate(_)
SortByDate(h) ==
    IF h = << >> THEN << >>
    ELSE InsertByDate(SortByDate(SubSeq(h, 1, Len(h) - 1)), h[Len(h)])

checkForMixedMonthData(historyArray) ==
    Cardinality({ MonthOfDay(historyArray[i].date) : i \in 1..Len(historyArray) }) > 1

\* The comparisons performance < 0.9 and performance > 1.1 (lines 315-331) are
\* made on doubles: kWh values such as 21.15 and the constants 0.9 and 1.1 are
\* not representable, and the quotient (total / days) / static of a history
\* whose exact ratio is 9/10 or 11/10 rounds to one side or the other.  Off
\* these two ratios the distance to the boundary is above 1e-8 and the double
\* comparison agrees with the exact one.  On them the outcome depends on the
\* values: of the histories reached here, whose entries all hold 9/10 (11/10)
\* of the static target, the quotient in IEEE-754 binary64 is
\* 0.8999999999999999 for up to three entries of 21.15 (static 23.5), 20.52
\* (22.8), 27.99 (31.1) and 31.68 (35.2), and 1.1000000000000003 for three
\* entries of 25.85 (static 23.5); for the other static targets, and for one
\* or two entries of 25.85, it is the double 0.9 (1.1) itself.
AllExportsAre(recentHistory, export) ==
    \A i \in 1..Len(recentHistory) : recentHistory[i].export = export

RoundsBelowNineTenths(recentHistory, staticMonthlyTarget) ==
    /\ staticMonthlyTarget \in { 23500, 22800, 31100, 35200 }
    /\ Len(recentHistory) \in 1..3
    /\ AllExportsAre(recentHistory, (9 * staticMonthlyTarget) \div 10)

RoundsAboveElevenTenths(recentHistory, staticMonthlyTarget) ==
    /\ staticMonthlyTarget = 23500
    /\ Len(recentHistory) = 3
    /\ AllExportsAre(recentHistory, (11 * staticMonthlyTarget) \div 10)

PerformanceBelowNineTenths(recentHistory, staticMonthlyTarget) ==
    LET totalExport == SumExport(recentHistory)
        expected == 9 * staticMonthlyTarget * Len(recentHistory)
    IN  \/ 10 * totalExport < expected
        \/ /\ 10 * totalExport = expected
           /\ RoundsBelowNineTenths(recentHistory, staticMonthlyTarget)

PerformanceAboveElevenTenths(recentHistory, staticMonthlyTarget) ==
    LET totalExport == SumExport(recentHistory)
        expected == 11 * staticMonthlyTarget * Len(recentHistory)
    IN  \/ 10 * totalExport > expected
        \/ /\ 10 * totalExport = expected
           /\ RoundsAboveElevenTenths(recentHistory, staticMonthlyTarget)

\* Returns [target, st].
getCurrentMonthTarget(st, n) ==
    LET exportHistory == st.history
        daysToUse == Min(Len(exportHistory), history_days)
        recentHistory == SliceLast(exportHistory, daysToUse)
        totalExport == SumExport(recentHistory)
        staticMonthlyTarget == MONTHLY_EXPORT_TARGETS[getMonth(n)]
        \* performance = (totalExport / daysToUse) / staticMonthlyTarget
        under == PerformanceBelowNineTenths(recentHistory, staticMonthlyTarget)
        over == PerformanceAboveElevenTenths(recentHistory, staticMonthlyTarget)
        \* static + (static * days - total) / catchup_days, capped at 2 * static
        underTarget ==
            Rat(Min(staticMonthlyTarget * catchup_days
                        + (staticMonthlyTarget * daysToUse - totalExport),
                    2 * staticMonthlyTarget * catchup_days),
                catchup_days)
        \* static - 0.3 * (total / days - static), floored at 0.8 * static
        overTarget ==
            Rat(Max(13 * staticMonthlyTarget * daysToUse - 3 * totalExport,
                    8 * staticMonthlyTarget * daysToUse),
                10 * daysToUse)
        adjustedTarget ==
            IF under THEN underTarget
            ELSE IF over THEN overTarget
            ELSE Rat(staticMonthlyTarget, 1)
        st1 == IF under THEN logPerformanceAlert(st, n, "UNDER_PERFORMING")
               ELSE IF over THEN logPerformanceAlert(st, n, "OVER_PERFORMING")
               ELSE st
        calculatedTarget ==
            [ method |-> "rolling_30day",
              adjusted_target |-> adjustedTarget,
              static_monthly_target |-> staticMonthlyTarget,
              rolling_days |-> daysToUse,
              rolling_export_total |-> totalExport,
              calculation_date |-> n,
              adjustment_reason |-> IF under THEN "under_performing"
                                    ELSE IF over THEN "over_performing" ELSE "normal",
              mixed_month_data |-> IF daysToUse > 1
                                   THEN checkForMixedMonthData(recentHistory) ELSE FALSE ]
    IN  IF Len(exportHistory) > 0
        THEN [ target |-> adjustedTarget,
               st |-> [st1 EXCEPT !.target_calculation = calculatedTarget] ]
        ELSE [ target |-> Rat(staticMonthlyTarget, 1),
               st |-> logSystemInfo(st, n, "Using static monthly target") ]

\* Variant of updateDailyExportHistory that never drops the oldest entries.
\* Variant of updateDailyExportHistory that refreshes today's entry on every run.
updateDailyExportHistory_Overwrites(st, n, dailyExport, targetExport) ==
    LET currentDate == getLocalDateString(n)
        todayEntry == [ date |-> currentDate, export |-> dailyExport,
                        target |-> targetExport, timestamp |-> n ]
        others == SelectSeq(st.history, LAMBDA e : e.date # currentDate)
        updated == SliceLast(SortByDate(Append(others, todayEntry)), history_days)
    IN  logSystemInfo([st EXCEPT !.history = updated], n, "Export history updated")
updateDailyExportHistory_NoLimit(st, n, dailyExport, targetExport) ==
    LET currentDate == getLocalDateString(n)
        exportHistory == st.history
        todayEntry == [ date |-> currentDate, export |-> dailyExport,
                        target |-> targetExport, timestamp |-> n ]
        updated == SortByDate(Append(exportHistory, todayEntry))
    IN  IF \E i \in 1..Len(exportHistory) : exportHistory[i].date = currentDate
        THEN st
        ELSE logSystemInfo([st EXCEPT !.history = updated], n, "Export history updated")

\* Variant of updateDailyExportHistory that starts a new history when the
\* month changes.
updateDailyExportHistory_ResetsOnNewMonth(st, n, dailyExport, targetExport) ==
    LET currentDate == getLocalDateString(n)
        exportHistory == st.history
        todayEntry == [ date |-> currentDate, export |-> dailyExport,
                        target |-> targetExport, timestamp |-> n ]
        kept == SelectSeq(exportHistory,
                          LAMBDA e : MonthOfDay(e.date) = MonthOfDay(currentDate))
        updated == SliceLast(SortByDate(Append(kept, todayEntry)), history_days)
    IN  IF \E i \in 1..Len(exportHistory) : exportHistory[i].date = currentDate
        THEN st
        ELSE logSystemInfo([st EXCEPT !.history = updated], n, "Export history updated")

\* Lines 263-297.
updateDailyExportHistory(st, n, dailyExport, targetExport) ==
    LET currentDate == getLocalDateString(n)
        exportHistory == st.history
        todayEntry == [ date |-> currentDate, export |-> dailyExport,
                        target |-> targetExport, timestamp |-> n ]
        updated == SliceLast(SortByDate(Append(exportHistory, todayEntry)), history_days)
    IN  IF \E i \in 1..Len(exportHistory) : exportHistory[i].date = currentDate
        THEN st
        ELSE logSystemInfo([st EXCEPT !.history = updated], n, "Export history updated")

\* ------------------------------------------------------------------------
\* Input handling
\* ------------------------------------------------------------------------
\* Lines 828-833: x || default replaces a missing or zero reading.
ReadInputs(t) ==
    [ dailyExport |-> t.export_daily,
      gridPower |-> t.grid_power,
      generation |-> t.generation,
      batterySoc |-> IF t.victron_soc = 0 THEN default_soc ELSE t.victron_soc,
      batteryPower |-> t.battery_power ]

\* Variant of validateInputData whose upper SOC bound is exclusive.
validateInputData_ExclusiveSocBound(inputs) ==
    { e \in { "soc", "generation", "grid_power", "battery_power", "daily_export" } :
        \/ e = "soc" /\ ( inputs.batterySoc < min_reasonable_soc
                          \/ inputs.batterySoc >= max_reasonable_soc )
        \/ e = "generation" /\ Abs(inputs.generation) > max_reasonable_power
        \/ e = "grid_power" /\ Abs(inputs.gridPower) > max_reasonable_power
        \/ e = "battery_power" /\ Abs(inputs.batteryPower) > max_reasonable_power
        \/ e = "daily_export" /\ ( inputs.dailyExport < 0
                                   \/ inputs.dailyExport > max_daily_export_kwh * WhPerKWh ) }

\* The set of failed checks (the source collects one message per failed check).
validateInputData(inputs) ==
    { e \in { "soc", "generation", "grid_power", "battery_power", "daily_export" } :
        \/ e = "soc" /\ ( inputs.batterySoc < min_reasonable_soc
                          \/ inputs.batterySoc > max_reasonable_soc )
        \/ e = "generation" /\ Abs(inputs.generation) > max_reasonable_power
        \/ e = "grid_power" /\ Abs(inputs.gridPower) > max_reasonable_power
        \/ e = "battery_power" /\ Abs(inputs.batteryPower) > max_reasonable_power
        \/ e = "daily_export" /\ ( inputs.dailyExport < 0
                                   \/ inputs.dailyExport > max_daily_export_kwh * WhPerKWh ) }

\* Variant of initializeStateIfNeeded that resets the state without logging.
initializeStateIfNeeded_Silent(st, n) ==
    IF st.state \notin STATES
    THEN [st EXCEPT !.state = EXPORT_PRIORITY]
    ELSE st

\* Lines 444-455.
initializeStateIfNeeded(st, n) ==
    IF st.state \notin STATES
    THEN addPersistentLog([st EXCEPT !.state = EXPORT_PRIORITY], n,
                          "SYSTEM", "Energy management system initialized", "high")
    ELSE st

getExcessGeneration(generation, gridPower) ==
    IF gridPower < 0 THEN Abs(gridPower) ELSE 0

\* Variant of shouldResetToExportPriority that holds at or above the
\* percentage instead of below it.
shouldResetToExportPriority_AtOrAbove(dailyExport, targetExport, batteryPower) ==
    /\ ~PercentOfRatBelow(dailyExport, targetExport, export_target_percentage)
    /\ batteryPower > strong_charging_threshold

\* Lines 403-407.
shouldResetToExportPriority(dailyExport, targetExport, batteryPower) ==
    /\ PercentOfRatBelow(dailyExport, targetExport, export_target_percentage)
    /\ batteryPower > strong_charging_threshold

isBatteryProtectionActive(batterySoc, batteryPower) ==
    batterySoc <= min_soc_threshold /\ batteryPower < 0

\* Variant of getHWSCooldownStatus that counts the cooldown as expired at
\* exactly hws_cooldown_period.
getHWSCooldownStatus_Inclusive(st, n) ==
    (n - st.hws_last_off_time) >= hws_cooldown_period * MinuteUnits

\* Lines 509-513.
getHWSCooldownStatus(st, n) ==
    (n - st.hws_last_off_time) > hws_cooldown_period * MinuteUnits

logHWSEvent(st, n, action) ==
    addPersistentLog(st, n, "HWS_EVENT", action,
                     IF action = "TURNED_OFF" THEN "normal" ELSE "low")

logStateChange(st, n, fromState, toState, reason) ==
    addPersistentLog(st, n, "STATE_CHANGE", reason,
                     IF fromState = SAFE_MODE \/ toState = SAFE_MODE THEN "high" ELSE "normal")

\* Variant of logDailySummary that does not look at the date of the last summary.
logDailySummary_EveryTick(st, n) ==
    LET currentHour == getHours(n)
        today == getLocalDateString(n)
    IN  IF currentHour >= 23 \/ currentHour <= 1
        THEN [ addPersistentLog(st, n, "DAILY_SUMMARY", "Daily Summary", "normal")
                 EXCEPT !.last_daily_summary_date = today ]
        ELSE st

\* Lines 486-507.
logDailySummary(st, n) ==
    LET currentHour == getHours(n)
        today == getLocalDateString(n)
    IN  IF (currentHour >= 23 \/ currentHour <= 1) /\ st.last_daily_summary_date # today
        THEN [ addPersistentLog(st, n, "DAILY_SUMMARY", "Daily Summary", "normal")
                 EXCEPT !.last_daily_summary_date = today ]
        ELSE st

\* ------------------------------------------------------------------------
\* MAIN STATE MACHINE LOGIC
\* ------------------------------------------------------------------------
Decision(nextState, stateReason, st) ==
    [ nextState |-> nextState, stateReason |-> stateReason, st |-> st ]

\* Variant of the shared condition that excludes generation equal to the
\* threshold.
SufficientSolar_ExclusiveGeneration(inputs) ==
    \/ inputs.generation > min_generation_for_export
    \/ inputs.batteryPower >= strong_charging_threshold

\* Rules 3 and 4: the condition shared by both reset branches (lines 595, 610).
SufficientSolar(inputs) ==
    \/ inputs.generation >= min_generation_for_export
    \/ inputs.batteryPower >= strong_charging_threshold

UnderTargetReset(n, inputs) ==
    /\ ~GeqRat(inputs.dailyExport, inputs.targetExport)
    /\ ~isNightTime(n)
    /\ SufficientSolar(inputs)

DeepShortfallReset(n, inputs) ==
    /\ shouldResetToExportPriority(inputs.dailyExport, inputs.targetExport, inputs.batteryPower)
    /\ ~isNightTime(n)
    /\ SufficientSolar(inputs)

HysteresisExit(n, currentState, inputs) ==
    /\ currentState = EXPORT_PRIORITY
    /\ ~isNightTime(n)
    /\ inputs.generation < min_generation_to_stay_export
    /\ inputs.batteryPower < battery_charging_threshold
    /\ inputs.batterySoc > min_soc_threshold

\* A request for targetState through the debounce registry (lines 597-606,
\* 611-620, 627-636).
DebouncedRequest(st, n, currentState, targetState, approvedReason, pendingReason) ==
    LET debounceCheck == checkStateChangeDebounce(st, n, targetState, currentState) IN
    IF debounceCheck.allowed
    THEN Decision(targetState, approvedReason,
                  clearOtherStateChangeRequests(debounceCheck.st, currentState, targetState))
    ELSE Decision(currentState, pendingReason, debounceCheck.st)

\* Variant of the switch whose BATTERY_STORAGE case tests a discharging
\* battery before the load-management condition.
DefaultTransition_DischargeFirst(st, n, currentState, inputs) ==
    LET excessGeneration == getExcessGeneration(inputs.generation, inputs.gridPower)
        exportTargetReached == GeqRat(inputs.dailyExport, inputs.targetExport)
        batteryFull == inputs.batterySoc >= max_soc_threshold
        batteryLow == inputs.batterySoc <= min_soc_threshold
        batteryCharging == inputs.batteryPower > 0
        socDropped == inputs.batterySoc <= (max_soc_threshold - hws_soc_drop_threshold)
        generationDropped == inputs.generation < hws_generation_drop_threshold
    IN  CASE currentState = EXPORT_PRIORITY ->
                IF exportTargetReached
                THEN Decision(BATTERY_STORAGE, "Export target reached, switching to battery storage", st)
                ELSE IF /\ inputs.generation < min_generation_for_export
                        /\ inputs.batterySoc > evening_self_consume_soc_threshold
                        /\ ~batteryCharging
                THEN Decision(SELF_CONSUME, "Low solar, target not reached, battery has charge", st)
                ELSE Decision(currentState, "Export priority", st)
          [] currentState = BATTERY_STORAGE ->
                IF inputs.batteryPower < 0
                THEN Decision(SELF_CONSUME, "Battery discharging", st)
                ELSE IF batteryFull /\ 10 * excessGeneration > 8 * hws_power_rating
                THEN Decision(LOAD_MANAGEMENT, "Battery full, activating load management", st)
                ELSE IF batteryLow /\ ~batteryCharging
                THEN Decision(SELF_CONSUME, "Battery low and not charging", st)
                ELSE Decision(currentState, "Battery storage", st)
          [] currentState = LOAD_MANAGEMENT ->
                IF (socDropped \/ generationDropped) /\ st.hws_status
                THEN IF batteryLow /\ ~batteryCharging
                     THEN Decision(SELF_CONSUME, "Battery low - switching to self consume", st)
                     ELSE Decision(BATTERY_STORAGE, "SOC or generation dropped - back to battery storage", st)
                ELSE Decision(currentState, "Load management", st)
          [] currentState = SELF_CONSUME ->
                IF batteryCharging /\ ~exportTargetReached
                THEN Decision(EXPORT_PRIORITY, "Battery charging and export target not reached", st)
                ELSE IF batteryCharging /\ exportTargetReached
                THEN Decision(BATTERY_STORAGE, "Battery charging and export target reached", st)
                ELSE Decision(currentState, "Self consume", st)
          [] OTHER ->
                Decision(SAFE_MODE, "Unknown state, entering safe mode",
                         addPersistentLog(st, n, "ERROR", "Unknown state detected", "critical"))

\* The switch on currentState (lines 639-706).
DefaultTransition(st, n, currentState, inputs) ==
    LET excessGeneration == getExcessGeneration(inputs.generation, inputs.gridPower)
        exportTargetReached == GeqRat(inputs.dailyExport, inputs.targetExport)
        batteryFull == inputs.batterySoc >= max_soc_threshold
        batteryLow == inputs.batterySoc <= min_soc_threshold
        batteryCharging == inputs.batteryPower > 0
        socDropped == inputs.batterySoc <= (max_soc_threshold - hws_soc_drop_threshold)
        generationDropped == inputs.generation < hws_generation_drop_threshold
    IN  CASE currentState = EXPORT_PRIORITY ->
                IF exportTargetReached
                THEN Decision(BATTERY_STORAGE, "Export target reached, switching to battery storage", st)
                ELSE IF /\ inputs.generation < min_generation_for_export
                        /\ inputs.batterySoc > evening_self_consume_soc_threshold
                        /\ ~batteryCharging
                THEN Decision(SELF_CONSUME, "Low solar, target not reached, battery has charge", st)
                ELSE Decision(currentState, "Export priority", st)
          [] currentState = BATTERY_STORAGE ->
                IF batteryFull /\ 10 * excessGeneration > 8 * hws_power_rating
                THEN Decision(LOAD_MANAGEMENT, "Battery full, activating load management", st)
                ELSE IF batteryLow /\ ~batteryCharging
                THEN Decision(SELF_CONSUME, "Battery low and not charging", st)
                ELSE IF inputs.batteryPower < 0
                THEN Decision(SELF_CONSUME, "Battery discharging", st)
                ELSE Decision(currentState, "Battery storage", st)
          [] currentState = LOAD_MANAGEMENT ->
                IF (socDropped \/ generationDropped) /\ st.hws_status
                THEN IF batteryLow /\ ~batteryCharging
                     THEN Decision(SELF_CONSUME, "Battery low - switching to self consume", st)
                     ELSE Decision(BATTERY_STORAGE, "SOC or generation dropped - back to battery storage", st)
                ELSE Decision(currentState, "Load management", st)
          [] currentState = SELF_CONSUME ->
                IF batteryCharging /\ ~exportTargetReached
                THEN Decision(EXPORT_PRIORITY, "Battery charging and export target not reached", st)
                ELSE IF batteryCharging /\ exportTargetReached
                THEN Decision(BATTERY_STORAGE, "Battery charging and export target reached", st)
                ELSE Decision(currentState, "Self consume", st)
          [] OTHER ->
                Decision(SAFE_MODE, "Unknown state, entering safe mode",
                         addPersistentLog(st, n, "ERROR", "Unknown state detected", "critical"))

\* Variant of the stale-data test that includes the threshold itself.
GenerationDataStale_Inclusive(inputs) ==
    LET exportingSignificantly == inputs.gridPower <= -significant_export_threshold
        generationSuspicious == inputs.generation < generation_suspicious_below
    IN  exportingSignificantly /\ generationSuspicious

\* PRIORITY 0 (lines 550-553): exporting significantly with a suspiciously low
\* generation reading.
GenerationDataStale(inputs) ==
    LET exportingSignificantly == inputs.gridPower < -significant_export_threshold
        generationSuspicious == inputs.generation < generation_suspicious_below
    IN  exportingSignificantly /\ generationSuspicious

\* Returns [nextState, stateReason, st].
processStateTransition(st, n, currentState, inputs) ==
    LET generationDataStale == GenerationDataStale(inputs)
    IN  IF currentState = EXPORT_PRIORITY /\ generationDataStale
        THEN Decision(currentState, "Maintaining export state: generation data stale",
                      addPersistentLog(st, n, "DATA_PROTECTION",
                                       "Generation data appears stale", "high"))
        ELSE IF isBatteryProtectionActive(inputs.batterySoc, inputs.batteryPower)
        THEN IF currentState # EXPORT_PRIORITY
             THEN Decision(EXPORT_PRIORITY, "Battery protection override",
                           addPersistentLog(st, n, "BATTERY_PROTECTION",
                                            "Battery protection override triggered", "critical"))
             ELSE Decision(currentState, "Battery protection active", st)
        ELSE IF UnderTargetReset(n, inputs)
        THEN IF currentState # EXPORT_PRIORITY
             THEN DebouncedRequest(st, n, currentState, EXPORT_PRIORITY,
                                   "Reset to export priority", "Export priority requested")
             ELSE Decision(currentState, "", st)
        ELSE IF DeepShortfallReset(n, inputs)
        THEN DebouncedRequest(st, n, currentState, EXPORT_PRIORITY,
                              "Reset to export priority (shortfall)",
                              "Export priority requested (shortfall)")
        ELSE IF HysteresisExit(n, currentState, inputs)
        THEN DebouncedRequest(st, n, currentState, SELF_CONSUME,
                              "Low generation and weak battery charging with safe SOC",
                              "Self consume requested")
        ELSE DefaultTransition(st, n, currentState, inputs)

\* ------------------------------------------------------------------------
\* OUTPUT GENERATION
\* ------------------------------------------------------------------------
\* grid_setpoint: null, or a number of watts.
NullSetpoint == << >>
Setpoint(w) == << w >>

Actions(ess, setpoint, hws, inverter) ==
    [ set_ess_mode |-> ess, grid_setpoint |-> setpoint,
      enable_hws |-> hws, inverter_mode |-> inverter ]

\* Inverter modes written by the source: 3 = on, 4 = off.
InverterOn == 3
InverterOff == 4

\* The HWS control logic of the LOAD_MANAGEMENT case (lines 768-791).
\* Returns [enable_hws, st].
HWSControl(st, n, inputs) ==
    LET hwsStatus == st.hws_status
        socDropped == inputs.batterySoc <= (max_soc_threshold - hws_soc_drop_threshold)
        generationDropped == inputs.generation < hws_generation_drop_threshold
        cooldownExpired == getHWSCooldownStatus(st, n)
    IN  IF ~hwsStatus /\ cooldownExpired /\ ~socDropped /\ ~generationDropped
        THEN [ enable_hws |-> TRUE, st |-> logHWSEvent(st, n, "TURNED_ON") ]
        ELSE IF hwsStatus /\ (socDropped \/ generationDropped)
        THEN [ enable_hws |-> FALSE,
               st |-> logHWSEvent([st EXCEPT !.hws_last_off_time = n], n, "TURNED_OFF") ]
        ELSE [ enable_hws |-> hwsStatus,
               st |-> IF hwsStatus
                      THEN addPersistentLog(st, n, "HWS_STATUS", "HWS remains ON", "low")
                      ELSE st ]

\* Variant of generateOutput whose BATTERY_STORAGE case leaves ESS control off.
generateOutput_BatteryStorageEssOff(st, n, state, inputs, stateReason) ==
    LET targetReached == GeqRat(inputs.dailyExport, inputs.targetExport)
        status ==
            [ export_target |-> inputs.targetExport,
              daily_export |-> inputs.dailyExport,
              target_reached |-> targetReached,
              battery_soc |-> inputs.batterySoc,
              excess_generation |-> getExcessGeneration(inputs.generation, inputs.gridPower),
              battery_power |-> inputs.batteryPower,
              battery_protection_active |->
                  isBatteryProtectionActive(inputs.batterySoc, inputs.batteryPower) ]
        hws == HWSControl(st, n, inputs)
        Out(actions) ==
            [ timestamp |-> n, current_state |-> state, actions |-> actions,
              status |-> status, debug |-> [ state_reason |-> stateReason ] ]
    IN  CASE state = EXPORT_PRIORITY ->
                [ output |-> Out(Actions(FALSE, NullSetpoint, FALSE, InverterOn)), st |-> st ]
          [] state = BATTERY_STORAGE ->
                [ output |-> Out(Actions(FALSE, Setpoint(0), FALSE, InverterOn)), st |-> st ]
          [] state = LOAD_MANAGEMENT ->
                [ output |-> Out(Actions(TRUE, Setpoint(0), hws.enable_hws, InverterOn)),
                  st |-> hws.st ]
          [] state = SELF_CONSUME ->
                [ output |-> Out(Actions(TRUE, Setpoint(0), FALSE, InverterOn)), st |-> st ]
          [] state = SAFE_MODE ->
                [ output |-> Out(Actions(FALSE, NullSetpoint, FALSE, InverterOff)),
                  st |-> addPersistentLog(st, n, "ERROR",
                                          "System operating in safe mode", "critical") ]
          [] OTHER ->
                [ output |-> Out(Actions(FALSE, NullSetpoint, FALSE, InverterOn)), st |-> st ]

\* Returns [output, st].
generateOutput(st, n, state, inputs, stateReason) ==
    LET targetReached == GeqRat(inputs.dailyExport, inputs.targetExport)
        status ==
            [ export_target |-> inputs.targetExport,
              daily_export |-> inputs.dailyExport,
              target_reached |-> targetReached,
              battery_soc |-> inputs.batterySoc,
              excess_generation |-> getExcessGeneration(inputs.generation, inputs.gridPower),
              battery_power |-> inputs.batteryPower,
              battery_protection_active |->
                  isBatteryProtectionActive(inputs.batterySoc, inputs.batteryPower) ]
        hws == HWSControl(st, n, inputs)
        Out(actions) ==
            [ timestamp |-> n, current_state |-> state, actions |-> actions,
              status |-> status, debug |-> [ state_reason |-> stateReason ] ]
    IN  CASE state = EXPORT_PRIORITY ->
                [ output |-> Out(Actions(FALSE, NullSetpoint, FALSE, InverterOn)), st |-> st ]
          [] state = BATTERY_STORAGE ->
                [ output |-> Out(Actions(TRUE, Setpoint(0), FALSE, InverterOn)), st |-> st ]
          [] state = LOAD_MANAGEMENT ->
                [ output |-> Out(Actions(TRUE, Setpoint(0), hws.enable_hws, InverterOn)),
                  st |-> hws.st ]
          [] state = SELF_CONSUME ->
                [ output |-> Out(Actions(TRUE, Setpoint(0), FALSE, InverterOn)), st |-> st ]
          [] state = SAFE_MODE ->
                [ output |-> Out(Actions(FALSE, NullSetpoint, FALSE, InverterOff)),
                  st |-> addPersistentLog(st, n, "ERROR",
                                          "System operating in safe mode", "critical") ]
          [] OTHER ->
                [ output |-> Out(Actions(FALSE, NullSetpoint, FALSE, InverterOn)), st |-> st ]

\* ------------------------------------------------------------------------
\* MAIN EXECUTION
\* ------------------------------------------------------------------------
\* No message leaves the node.
NoMsg == [ sent |-> FALSE ]

\* msg.payload of the validation branch (lines 861-874).
ValidationFailurePayload(n, validationErrors) ==
    [ timestamp |-> n, current_state |-> SAFE_MODE,
      actions |-> Actions(FALSE, NullSetpoint, FALSE, InverterOn),
      status |-> [ validation_errors |-> validationErrors,
                   message |-> "Invalid sensor data - using safe mode" ] ]

\* Variant of the catch handler's payload that leaves the inverter on.
FatalErrorPayload_InverterOn(n) ==
    [ timestamp |-> n, current_state |-> SAFE_MODE,
      actions |-> Actions(FALSE, NullSetpoint, FALSE, InverterOn),
      error |-> "error.message" ]

\* msg.payload of the catch handler (lines 911-921).
FatalErrorPayload(n) ==
    [ timestamp |-> n, current_state |-> SAFE_MODE,
      actions |-> Actions(FALSE, NullSetpoint, FALSE, InverterOff),
      error |-> "error.message" ]

\* Variant of the catch handler that logs the error and returns no message.
CatchHandler_NoCommand(st, n) ==
    [ st |-> addPersistentLog(st, n, "ERROR", "Energy Management Fatal Error", "critical"),
      msg |-> NoMsg ]

\* Variant of the catch handler that persists the state it reports.
CatchHandler_PersistsSafeMode(st, n) ==
    [ st |-> [ addPersistentLog(st, n, "ERROR", "Energy Management Fatal Error", "critical")
                 EXCEPT !.state = SAFE_MODE ],
      msg |-> FatalErrorPayload(n) ]

\* The catch handler (lines 903-923).
CatchHandler(st, n) ==
    [ st |-> addPersistentLog(st, n, "ERROR", "Energy Management Fatal Error", "critical"),
      msg |-> FatalErrorPayload(n) ]

\* Variant of the disabled check that initialises the state before returning.
DisabledTick_Initializes(st, n) == [ st |-> initializeStateIfNeeded(st, n), msg |-> NoMsg ]

\* The disabled check (lines 820-824): a bare return.
DisabledTick(st, n) == [ st |-> st, msg |-> NoMsg ]

\* Variant of the validation branch that stores the emitted enable_hws.
ValidationFailure_StoresHwsStatus(st, n, validationErrors) ==
    [ st |-> [addPersistentLog(st, n, "ERROR", "Data validation failed", "high")
                 EXCEPT !.hws_status = FALSE],
      msg |-> ValidationFailurePayload(n, validationErrors) ]

\* Lines 853-876.
ValidationFailure(st, n, validationErrors) ==
    [ st |-> addPersistentLog(st, n, "ERROR", "Data validation failed", "high"),
      msg |-> ValidationFailurePayload(n, validationErrors) ]

\* Variant of lines 878-901 whose hws_status write never clears the flag.
ValidatedTick_StickyHwsStatus(st, n, currentState, inputs) ==
    LET decision == processStateTransition(st, n, currentState, inputs)
        nextState == decision.nextState
        st1 == IF nextState # currentState
               THEN logStateChange([decision.st EXCEPT !.state = nextState], n,
                                   currentState, nextState, decision.stateReason)
               ELSE decision.st
        st2 == logDailySummary(st1, n)
        generated == generateOutput(st2, n, nextState, inputs, decision.stateReason)
    IN  [ st |-> [generated.st EXCEPT !.hws_status =
                      generated.output.actions.enable_hws \/ st.hws_status],
          msg |-> generated.output ]

\* Lines 878-901.
ValidatedTick(st, n, currentState, inputs) ==
    LET decision == processStateTransition(st, n, currentState, inputs)
        nextState == decision.nextState
        st1 == IF nextState # currentState
               THEN logStateChange([decision.st EXCEPT !.state = nextState], n,
                                   currentState, nextState, decision.stateReason)
               ELSE decision.st
        st2 == logDailySummary(st1, n)
        generated == generateOutput(st2, n, nextState, inputs, decision.stateReason)
    IN  [ st |-> [generated.st EXCEPT !.hws_status = generated.output.actions.enable_hws],
          msg |-> generated.output ]

\* One execution of the node at clock n with the input globals t.  throws: the
\* read of the persisted export history fails (a blob that is not an array of
\* records makes line 306 or 268 raise a TypeError), which the try block hands
\* to the catch handler.
RunTick(st, n, t, throws) ==
    LET raw == ReadInputs(t)
        st1 == initializeStateIfNeeded(st, n)
        currentState == st1.state
        targetResult == getCurrentMonthTarget(st1, n)
        targetExport == targetResult.target
        st2 == updateDailyExportHistory(targetResult.st, n, raw.dailyExport, targetExport)
        inputs == [ dailyExport |-> raw.dailyExport, targetExport |-> targetExport,
                    generation |-> raw.generation, gridPower |-> raw.gridPower,
                    batterySoc |-> raw.batterySoc, batteryPower |-> raw.batteryPower ]
        validationErrors == validateInputData(inputs)
    IN  IF t.energy_management_enabled = FALSE THEN DisabledTick(st, n)
        ELSE IF throws THEN CatchHandler(st1, n)
        ELSE IF validationErrors # {} THEN ValidationFailure(st2, n, validationErrors)
        ELSE ValidatedTick(st2, n, currentState, inputs)

\* ------------------------------------------------------------------------
\* The input globals a tick may find (written by the ingestion flows)
\* ------------------------------------------------------------------------
ExportDailyValues == { 5000, 80000 }
GridPowerValues == { -2600, 400 }
GenerationValues == { 250, 4000 }
SocValues == { 0, 35, 60, 99 }
BatteryPowerValues == { -300, 0, 1200 }

Reading(export, grid, generation, soc, battery) ==
    [ energy_management_enabled |-> TRUE, export_daily |-> export, grid_power |-> grid,
      generation |-> generation, victron_soc |-> soc, battery_power |-> battery ]

\* Readings every check of the validator accepts.
ValidTelemetry ==
    { Reading(e, g, s, c, b) : e \in ExportDailyValues, g \in GridPowerValues,
                               s \in GenerationValues, c \in SocValues,
                               b \in BatteryPowerValues }

\* Readings with one value at, or just beyond, a bound of the validator.
PowerBoundValues ==
    { -max_reasonable_power - 1, -max_reasonable_power,
      max_reasonable_power, max_reasonable_power + 1 }
SocBoundValues ==
    { min_reasonable_soc - 1, min_reasonable_soc, max_reasonable_soc, max_reasonable_soc + 1 }
ExportBoundValues ==
    { -1, 0, max_daily_export_kwh * WhPerKWh, max_daily_export_kwh * WhPerKWh + 1 }
BoundaryTelemetry ==
    { Reading(e, 400, 4000, 60, 0) : e \in ExportBoundValues }
    \cup { Reading(5000, g, 4000, 60, 0) : g \in PowerBoundValues }
    \cup { Reading(5000, 400, s, 60, 0) : s \in PowerBoundValues }
    \cup { Reading(5000, 400, 4000, c, 0) : c \in SocBoundValues }
    \cup { Reading(5000, 400, 4000, 60, b) : b \in PowerBoundValues }
    \cup { Reading(5000, 400, 4000, min_reasonable_soc, -300) }

Telemetry == ValidTelemetry \cup BoundaryTelemetry

\* No summary date, no target calculation stored yet.
NoDate == -1
NoTargetCalculation == [ method |-> "none" ]

\* The context store of a first run: every key absent.
FirstRunStore ==
    [ state |-> Absent,
      request |-> [ k \in Transitions |-> 0 ],
      hws_status |-> FALSE,
      hws_last_off_time |-> 0,
      history |-> << >>,
      target_calculation |-> NoTargetCalculation,
      last_daily_summary_date |-> NoDate,
      last_log_cleanup |-> 0,
      logs |-> << >> ]

NoReading == Reading(0, 0, 0, 0, 0)

\* ------------------------------------------------------------------------
\* Earlier executions: the runs that lead to the states exploration starts in
\* ------------------------------------------------------------------------
\* A run is a sequence of executions [at, t]; Replay gives the store, the
\* message and the inputs after the last of them.
RECURSIVE ReplayFrom(_, _)
ReplayFrom(start, run) ==
    LET half == Len(run) \div 2 IN
    CHOOSE after \in
       { IF run = << >> THEN before
         ELSE IF Len(run) = 1
         THEN CHOOSE single \in
                 { [ st |-> r.st, msg |-> r.msg, t |-> run[1].t ] :
                     r \in { RunTick(before.st, run[1].at, run[1].t, FALSE) } } : TRUE
         ELSE CHOOSE whole \in
                 { ReplayFrom(middle, SubSeq(run, half + 1, Len(run))) :
                     middle \in { ReplayFrom(before, SubSeq(run, 1, half)) } } : TRUE
         : before \in { start } } : TRUE

Replay(run) == ReplayFrom([ st |-> FirstRunStore, msg |-> NoMsg, t |-> NoReading ], run)

At(clock, t) == [ at |-> clock, t |-> t ]

\* The runs end at StartClock, 13:00 local time on the start day, or at
\* NightClock, 23:00 on that day.
NightClock == StartClock + 10 * HourUnits
Yesterday == StartClock - DayUnits

Sunny == Reading(5000, 400, 4000, 60, 1200)
SunnyTargetMet == Reading(80000, 400, 4000, 60, 1200)
Dull == Reading(5000, 400, 250, 60, 0)
DullLowBattery == Reading(5000, 400, 250, 35, 0)
FullExporting == Reading(80000, -2600, 4000, 99, 0)
FullDull == Reading(80000, -2600, 250, 99, 0)

ToExportPriority == << At(StartClock, Sunny) >>
ExportPriorityPending == << At(StartClock, Dull) >>
ToBatteryStorage == << At(StartClock, SunnyTargetMet) >>
BatteryStoragePending == << At(Yesterday, SunnyTargetMet), At(StartClock, Sunny) >>
ToSelfConsume == << At(StartClock - 5 * MinuteUnits, Dull), At(StartClock, Dull) >>
SelfConsumePending ==
    << At(StartClock - 6 * MinuteUnits, Dull), At(StartClock - MinuteUnits, Dull),
       At(StartClock, Sunny) >>
ToLoadManagement == << At(StartClock - MinuteUnits, SunnyTargetMet), At(StartClock, FullExporting) >>
LoadManagementIdle == << At(StartClock - MinuteUnits, SunnyTargetMet), At(StartClock, FullDull) >>
LoadManagementPending ==
    << At(Yesterday - MinuteUnits, SunnyTargetMet), At(Yesterday, FullExporting),
       At(StartClock, Reading(5000, -2600, 4000, 99, 0)) >>
LoadManagementCooling ==
    << At(Yesterday - MinuteUnits, SunnyTargetMet), At(Yesterday, FullExporting),
       At(StartClock, Sunny) >>
\* LOAD_MANAGEMENT with the HWS switched off by the sub-controller five minutes
\* before StartClock.
LoadManagementCooled ==
    << At(Yesterday - MinuteUnits, SunnyTargetMet), At(Yesterday, FullExporting),
       At(StartClock - 5 * MinuteUnits, Sunny), At(StartClock, FullExporting) >>
NightExportPriority == << At(NightClock, Sunny) >>
NightSelfConsume == << At(StartClock, DullLowBattery), At(NightClock, Dull) >>

EarlierRuns ==
    { << >>, ToExportPriority, ExportPriorityPending, ToBatteryStorage,
      BatteryStoragePending, ToSelfConsume, SelfConsumePending, ToLoadManagement,
      LoadManagementIdle, LoadManagementCooling, LoadManagementPending,
      LoadManagementCooled,
      NightExportPriority, NightSelfConsume }

\* The clock after a run: the time of its last execution.
ClockAfter(run) == IF run = << >> THEN StartClock ELSE run[Len(run)].at

\* The variables after an earlier run.
InitAfter(run) ==
    \E r \in { Replay(run) } :
        /\ now = ClockAfter(run)
        /\ ticks = 0
        /\ telemetry = r.t
        /\ energy_management_state = r.st.state
        /\ state_change_request = r.st.request
        /\ hws_status = r.st.hws_status
        /\ hws_last_off_time = r.st.hws_last_off_time
        /\ export_history_30days = r.st.history
        /\ target_calculation = r.st.target_calculation
        /\ last_daily_summary_date = r.st.last_daily_summary_date
        /\ last_log_cleanup = r.st.last_log_cleanup
        /\ energy_management_logs = r.st.logs
        /\ msg = r.msg

Init == \E run \in EarlierRuns : InitAfter(run)

\* The effect of one execution on the variables.
Execute(n, t, throws) ==
    \E r \in { RunTick(Store, n, t, throws) } :
    /\ now' = n
    /\ ticks' = ticks + 1
    /\ telemetry' = t
    /\ energy_management_state' = r.st.state
    /\ state_change_request' = r.st.request
    /\ hws_status' = r.st.hws_status
    /\ hws_last_off_time' = r.st.hws_last_off_time
    /\ export_history_30days' = r.st.history
    /\ target_calculation' = r.st.target_calculation
    /\ last_daily_summary_date' = r.st.last_daily_summary_date
    /\ last_log_cleanup' = r.st.last_log_cleanup
    /\ energy_management_logs' = r.st.logs
    /\ msg' = r.msg

\* An execution with the module enabled.
Tick ==
    /\ ticks < MaxTicks
    /\ \E dt \in Steps, t \in Telemetry : Execute(now + dt, t, FALSE)

\* An execution with energy_management_enabled = false; the inputs are not read.
TickDisabled ==
    /\ ticks < MaxTicks
    /\ \E dt \in Steps :
          Execute(now + dt, [telemetry EXCEPT !.energy_management_enabled = FALSE], FALSE)

\* An execution in which the history read raises.
TickThrows ==
    /\ ticks < MaxTicks
    /\ \E dt \in Steps :
          Execute(now + dt, [telemetry EXCEPT !.energy_management_enabled = TRUE], TRUE)

Next == Tick \/ TickDisabled \/ TickThrows

Spec == Init /\ [][Next]_vars

\* ------------------------------------------------------------------------
\* Long earlier runs: a month of history, a log at capacity
\* ------------------------------------------------------------------------
\* One execution a day at 23:59 local time, for history_days days up to the
\* start day: the history is full and the next minute starts a new date.
BeforeMidnight == StartClock + (24 - StartHour) * HourUnits - MinuteUnits
MonthOfDays ==
    [ i \in 1..history_days |-> At(BeforeMidnight - (history_days - i) * DayUnits, Sunny) ]

\* An execution every minute, each logging a performance alert, until the log
\* has been cut to max_log_entries.
MinuteByMinute(last) ==
    [ i \in 1..(max_log_entries + 2) |->
         At(last - (max_log_entries + 2 - i) * MinuteUnits, Sunny) ]
FullLog == MinuteByMinute(StartClock)

\* The same log left alone, the module disabled, until every entry is older
\* than log_max_age_days.
Disabled(t) == [ t EXCEPT !.energy_management_enabled = FALSE ]
FullLogAged ==
    Append(MinuteByMinute(StartClock - (log_max_age_days + 1) * DayUnits),
           At(StartClock, Disabled(Sunny)))

\* A log whose first entries reach log_max_age_days one minute after the
\* cleanup of StartClock, which found nothing to remove.
AgedAfterCleanup ==
    << At(StartClock - log_max_age_days * DayUnits + MinuteUnits, Sunny),
       At(StartClock, Sunny) >>

LongRuns == { MonthOfDays, FullLog, FullLogAged, AgedAfterCleanup }

InitLongRun == \E run \in LongRuns : InitAfter(run)

SpecLongRun == InitLongRun /\ [][Next]_vars

\* ------------------------------------------------------------------------
\* Runs that leave one day of history: below, on and above the target band
\* ------------------------------------------------------------------------
StartStatic == MONTHLY_EXPORT_TARGETS[getMonth(StartClock)]
OneDayOf(export) == << At(StartClock, Reading(export, 400, 4000, 60, 1200)) >>

AtNineTenths == OneDayOf((9 * StartStatic) \div 10)
OnTarget == OneDayOf(StartStatic)
AtElevenTenths == OneDayOf((11 * StartStatic) \div 10)

TargetRuns ==
    { ToExportPriority, AtNineTenths, OnTarget, AtElevenTenths, ToBatteryStorage,
      BatteryStoragePending, MonthOfDays }

InitTarget == \E run \in TargetRuns : InitAfter(run)

SpecTarget == InitTarget /\ [][Next]_vars

\* ------------------------------------------------------------------------
\* Restart of the runtime
\* ------------------------------------------------------------------------
\* The source names a context store on some accesses only: the log, the
\* cleanup time, the history, the target calculation and the summary date go
\* to the store 'file'; the state, the debounce requests, hws_status and
\* hws_last_off_time go to the default store (lines 220-257, 445-447, 510,
\* 670, 769, 779, 883, 897), which is kept in memory.  A restart keeps the
\* keys of 'file' and starts with an empty default store.
Restart ==
    /\ energy_management_state \in STATES
    /\ energy_management_state' = FirstRunStore.state
    /\ state_change_request' = FirstRunStore.request
    /\ hws_status' = FirstRunStore.hws_status
    /\ hws_last_off_time' = FirstRunStore.hws_last_off_time
    /\ UNCHANGED << now, ticks, telemetry, export_history_30days, target_calculation,
                    last_daily_summary_date, last_log_cleanup, energy_management_logs, msg >>

\* Runs that leave a request pending, the HWS on, or an HWS switch-off time.
RestartRuns == { LoadManagementPending, LoadManagementCooling, ExportPriorityPending }

InitRestart == \E run \in RestartRuns : InitAfter(run)

NextRestart == Next \/ Restart

SpecRestart == InitRestart /\ [][NextRestart]_vars

\* ------------------------------------------------------------------------
\* What the last execution emitted
\* ------------------------------------------------------------------------
\* A command record left the node.
Emitted == "current_state" \in DOMAIN msg
\* The record was built by generateOutput, i.e. the inputs passed validation.
StateMachineOutput == "debug" \in DOMAIN msg
\* The record was built by the validation branch.
ValidationFailureOutput ==
    /\ "status" \in DOMAIN msg
    /\ "validation_errors" \in DOMAIN msg.status
\* The record was built by the catch handler.
FatalErrorOutput == "error" \in DOMAIN msg

\* The log entries appended by the execution at the current clock.
EntriesOfThisTick ==
    { i \in 1..Len(energy_management_logs) : energy_management_logs[i].timestamp = now }
LoggedThisTick(logType) ==
    \E i \in EntriesOfThisTick : energy_management_logs[i].type = logType

\* ------------------------------------------------------------------------
\* C1 - battery protection
\* ------------------------------------------------------------------------
\* C1: after a validated tick whose telemetry soc lies in the validator's
\* range with soc <= min_soc_threshold and battery_power < 0, the persisted
\* and the reported state are EXPORT_PRIORITY with set_ess_mode = false and
\* inverter_mode = 3; with soc = min_soc_threshold and battery_power = 0 the
\* override does not fire (no BATTERY_PROTECTION entry, flag false).
C1_BatteryProtectionForcesExport ==
    StateMachineOutput =>
        /\ ( /\ telemetry.victron_soc >= min_reasonable_soc
             /\ telemetry.victron_soc <= min_soc_threshold
             /\ telemetry.battery_power < 0 )
           => /\ energy_management_state = EXPORT_PRIORITY
              /\ msg.current_state = EXPORT_PRIORITY
              /\ msg.actions.set_ess_mode = FALSE
              /\ msg.actions.inverter_mode = 3
        /\ ( /\ telemetry.victron_soc = min_soc_threshold
             /\ telemetry.battery_power = 0 )
           => /\ ~LoggedThisTick("BATTERY_PROTECTION")
              /\ msg.status.battery_protection_active = FALSE

\* ------------------------------------------------------------------------
\* C2 - SAFE_MODE commands
\* ------------------------------------------------------------------------
\* C2 as stated: every emitted command with current_state = SAFE_MODE has
\* set_ess_mode = false and inverter_mode = 4, whichever path emitted it.
C2_SafeModeTurnsInverterOff ==
    (Emitted /\ msg.current_state = SAFE_MODE)
        => /\ msg.actions.set_ess_mode = FALSE
           /\ msg.actions.inverter_mode = 4

\* C2 amended: every emitted command with current_state = SAFE_MODE has
\* set_ess_mode = false; its inverter_mode is 4 when it comes from the state
\* machine output or the catch handler and 3 when it comes from the
\* validation branch.
C2_SafeModeCommand ==
    (Emitted /\ msg.current_state = SAFE_MODE)
        => /\ msg.actions.set_ess_mode = FALSE
           /\ msg.actions.inverter_mode = IF ValidationFailureOutput THEN 3 ELSE 4

\* C2 witness: the catch handler has emitted a SAFE_MODE command.
C2_SafeModeEmitted ==
    /\ Emitted
    /\ msg.current_state = SAFE_MODE
    /\ FatalErrorOutput
    /\ msg.timestamp = now

StateAtStart == IF energy_management_state = Absent THEN EXPORT_PRIORITY
                ELSE energy_management_state

\* The reasons with which rules 3, 4 and 5 change the state.
DebouncedApprovals ==
    { "Reset to export priority", "Reset to export priority (shortfall)",
      "Low generation and weak battery charging with safe SOC" }

\* The step is a validated tick on which a debounced rule changed the state.
DebouncedChange ==
    /\ "debug" \in DOMAIN msg'
    /\ msg'.debug.state_reason \in DebouncedApprovals
    /\ energy_management_state' # StateAtStart

\* C4: a state change F -> T decided by rule 3, 4 or 5 happens on a tick
\* whose clock is at least state_change_debounce_time after the stored
\* request time of (F,T); a tick that starts a request stores its own clock
\* and leaves the state at F; a pending entry's time is never rewritten.
C4_DebouncedChangeWaits ==
    [][ /\ DebouncedChange =>
            LET requested == state_change_request[<< StateAtStart, energy_management_state' >>]
            IN  /\ requested # 0
                /\ now' - requested >= state_change_debounce_time * MinuteUnits
        /\ \A k \in Transitions :
            /\ (state_change_request[k] = 0 /\ state_change_request'[k] # 0)
                  => /\ state_change_request'[k] = now'
                     /\ energy_management_state' = StateAtStart
            /\ (state_change_request[k] # 0 /\ state_change_request'[k] # 0)
                  => state_change_request'[k] = state_change_request[k]
      ]_vars

\* C4 witness: a tick has approved a debounced change to EXPORT_PRIORITY.
C4_DebouncedChangeApproved ==
    /\ ticks > 0
    /\ StateMachineOutput
    /\ msg.debug.state_reason = "Reset to export priority"
    /\ energy_management_state = EXPORT_PRIORITY
    /\ \E i \in EntriesOfThisTick :
          /\ energy_management_logs[i].type = "DEBOUNCE"
          /\ energy_management_logs[i].message = "State change approved"

\* The conditions of the rules, stated on the readings of the tick a step
\* executes (soc and battery power as the engine read them).
StaleHolds ==
    /\ StateAtStart = EXPORT_PRIORITY
    /\ telemetry'.grid_power < -significant_export_threshold
    /\ telemetry'.generation < 500
ProtectionHolds ==
    /\ msg'.status.battery_soc <= min_soc_threshold
    /\ msg'.status.battery_power < 0
NightHolds ==
    \/ getHours(now') >= night_start_hour
    \/ getHours(now') < night_end_hour
\* Rule 3 (under-target reset) decides the tick.
Rule3Decides ==
    /\ "debug" \in DOMAIN msg'
    /\ StateAtStart # EXPORT_PRIORITY
    /\ ~ProtectionHolds
    /\ ~msg'.status.target_reached
    /\ ~NightHolds
    /\ \/ telemetry'.generation >= min_generation_for_export
       \/ msg'.status.battery_power >= strong_charging_threshold
\* Rule 5 (hysteresis exit) decides the tick.
Rule5Decides ==
    /\ "debug" \in DOMAIN msg'
    /\ StateAtStart = EXPORT_PRIORITY
    /\ ~StaleHolds
    /\ ~ProtectionHolds
    /\ ~NightHolds
    /\ telemetry'.generation < min_generation_to_stay_export
    /\ msg'.status.battery_power < battery_charging_threshold
    /\ msg'.status.battery_soc > min_soc_threshold

ApprovedEntryAppended ==
    \E i \in 1..Len(energy_management_logs') :
        /\ energy_management_logs'[i].timestamp = now'
        /\ energy_management_logs'[i].type = "DEBOUNCE"
        /\ energy_management_logs'[i].message = "State change approved"

\* With the request (StateAtStart, target) pending, the tick of the step
\* changes the state to target and logs the approval when the debounce time
\* has passed, and leaves the state alone before that.
DebounceOutcome(target) ==
    LET requested == state_change_request[<< StateAtStart, target >>]
    IN  requested # 0 =>
            IF now' - requested >= state_change_debounce_time * MinuteUnits
            THEN /\ energy_management_state' = target
                 /\ msg'.current_state = target
                 /\ ApprovedEntryAppended
            ELSE /\ energy_management_state' = StateAtStart
                 /\ ~ApprovedEntryAppended

\* C5: while rule 3 (respectively rule 5) decides the ticks and the request
\* (F,T) is pending, a tick at or after request time + debounce time sets the
\* state to EXPORT_PRIORITY (respectively SELF_CONSUME) and appends a
\* DEBOUNCE 'approved' entry, and every earlier tick leaves the state at F.
C5_ApprovedAtDebounceTime ==
    [][ /\ Rule3Decides => DebounceOutcome(EXPORT_PRIORITY)
        /\ Rule5Decides => DebounceOutcome(SELF_CONSUME)
      ]_vars

\* C5 witness: rule 5 has been approved exactly at request time + debounce time.
C5_HysteresisExitApproved ==
    /\ ticks > 0
    /\ StateMachineOutput
    /\ msg.debug.state_reason = "Low generation and weak battery charging with safe SOC"
    /\ energy_management_state = SELF_CONSUME
    /\ \E i \in EntriesOfThisTick :
          /\ energy_management_logs[i].type = "DEBOUNCE"
          /\ energy_management_logs[i].message = "State change approved"
    /\ \E i \in 1..Len(energy_management_logs) :
          /\ energy_management_logs[i].message = "State change request started"
          /\ energy_management_logs[i].timestamp = now - state_change_debounce_time * MinuteUnits

\* The requesting conditions of rule 3 and rule 5 on the readings of the tick
\* a step executes, whatever rule ends up deciding the tick.
Rule3ConditionHolds ==
    /\ ~msg'.status.target_reached
    /\ ~NightHolds
    /\ \/ telemetry'.generation >= min_generation_for_export
       \/ msg'.status.battery_power >= strong_charging_threshold
Rule5ConditionHolds ==
    /\ ~NightHolds
    /\ telemetry'.generation < min_generation_to_stay_export
    /\ msg'.status.battery_power < battery_charging_threshold
    /\ msg'.status.battery_soc > min_soc_threshold

\* C6: a validated tick on which the requesting condition of a pending
\* request (F,T) does not hold cancels that request (its stored time is
\* cleared), so that a later re-occurrence starts a fresh debounce period.
C6_LapseCancelsRequest ==
    [][ "debug" \in DOMAIN msg' =>
          /\ ( /\ StateAtStart # EXPORT_PRIORITY
               /\ state_change_request[<< StateAtStart, EXPORT_PRIORITY >>] # 0
               /\ ~Rule3ConditionHolds )
             => state_change_request'[<< StateAtStart, EXPORT_PRIORITY >>] = 0
          /\ ( /\ StateAtStart = EXPORT_PRIORITY
               /\ state_change_request[<< EXPORT_PRIORITY, SELF_CONSUME >>] # 0
               /\ ~Rule5ConditionHolds )
             => state_change_request'[<< EXPORT_PRIORITY, SELF_CONSUME >>] = 0
      ]_vars

\* ------------------------------------------------------------------------
\* C7 - C8 - validation
\* ------------------------------------------------------------------------
\* The bounds of the validator, on the input globals of the last execution
\* (export_daily is in Wh, the bound in kWh).
WithinBounds ==
    /\ telemetry.victron_soc >= -5 /\ telemetry.victron_soc <= 105
    /\ Abs(telemetry.generation) <= 50000
    /\ Abs(telemetry.grid_power) <= 50000
    /\ Abs(telemetry.battery_power) <= 50000
    /\ telemetry.export_daily >= 0 /\ telemetry.export_daily <= 200 * 1000

\* C7: an enabled tick that reaches the validator is handled as a validation
\* failure exactly when soc is outside [-5, 105], or |generation|,
\* |grid_power| or |battery_power| exceeds 50000, or the daily export is
\* outside [0, 200] kWh; otherwise the state machine output is emitted.
C7_ValidatorBounds ==
    (Emitted /\ ~FatalErrorOutput) =>
        /\ ValidationFailureOutput <=> ~WithinBounds
        /\ StateMachineOutput <=> WithinBounds
        /\ ValidationFailureOutput => msg.status.validation_errors # {}

\* C7 witness: a tick with the SOC at the inclusive upper bound was validated.
C7_UpperSocBoundAccepted ==
    /\ ticks > 0
    /\ telemetry.victron_soc = 105
    /\ StateMachineOutput
    /\ msg.timestamp = now

\* The step executes an enabled tick whose inputs fail validation.
FailsValidation ==
    /\ telemetry'.energy_management_enabled
    /\ ~WithinBounds'
    /\ "error" \notin DOMAIN msg'

\* What such a tick emits, logs and leaves alone apart from the state.
ValidationFailureEffects ==
    /\ "current_state" \in DOMAIN msg'
    /\ msg'.actions.set_ess_mode = FALSE
    /\ msg'.actions.grid_setpoint = NullSetpoint
    /\ msg'.actions.enable_hws = FALSE
    /\ msg'.actions.inverter_mode = 3
    /\ \E i \in 1..Len(energy_management_logs') :
          /\ energy_management_logs'[i].timestamp = now'
          /\ energy_management_logs'[i].type = "ERROR"
          /\ energy_management_logs'[i].priority = "high"
    /\ hws_status' = hws_status
    /\ hws_last_off_time' = hws_last_off_time
    /\ state_change_request' = state_change_request

\* C8 as stated: a tick whose inputs fail validation emits set_ess_mode =
\* false, grid_setpoint = null, enable_hws = false, inverter_mode = 3, appends
\* an ERROR entry of priority high and leaves the stored state, hws_status,
\* hws_last_off_time and every debounce entry as they were.
C8_ValidationFailureKeepsStore ==
    [][ FailsValidation =>
            /\ ValidationFailureEffects
            /\ energy_management_state' = energy_management_state
      ]_vars

\* C8 amended: as stated, except that a stored state that is absent or
\* unknown at the start of the tick is initialised to EXPORT_PRIORITY; a
\* stored state that is one of the engine's states is left as it was.
C8_ValidationFailureKeepsState ==
    [][ FailsValidation =>
            /\ ValidationFailureEffects
            /\ energy_management_state' = StateAtStart
      ]_vars

\* C8 witness: a validation failure in LOAD_MANAGEMENT with the hot-water
\* system on and a request pending.
C8_ValidationFailureInLoadManagement ==
    /\ ticks > 0
    /\ ValidationFailureOutput
    /\ msg.timestamp = now
    /\ LoggedThisTick("ERROR")
    /\ energy_management_state = LOAD_MANAGEMENT
    /\ hws_status = TRUE
    /\ state_change_request[<< LOAD_MANAGEMENT, EXPORT_PRIORITY >>] # 0

\* ------------------------------------------------------------------------
\* C9 - C10 - the disabled engine
\* ------------------------------------------------------------------------
\* C9: a tick with energy_management_enabled = false emits a command record
\* with current_state = "DISABLED", set_ess_mode = false, grid_setpoint =
\* null, enable_hws = false and inverter_mode = 3.
C9_DisabledCommandEmitted ==
    (ticks > 0 /\ telemetry.energy_management_enabled = FALSE) =>
        /\ Emitted
        /\ msg.current_state = "DISABLED"
        /\ msg.actions.set_ess_mode = FALSE
        /\ msg.actions.grid_setpoint = NullSetpoint
        /\ msg.actions.enable_hws = FALSE
        /\ msg.actions.inverter_mode = 3

\* C10: a tick with energy_management_enabled = false changes no persisted
\* key: state, debounce registry, hws_status, hws_last_off_time, export
\* history, target cache, last_daily_summary_date and event log (and the log
\* cleanup time) are the same before and after it.
C10_DisabledTickChangesNothing ==
    [][ telemetry'.energy_management_enabled = FALSE =>
            /\ energy_management_state' = energy_management_state
            /\ state_change_request' = state_change_request
            /\ hws_status' = hws_status
            /\ hws_last_off_time' = hws_last_off_time
            /\ export_history_30days' = export_history_30days
            /\ target_calculation' = target_calculation
            /\ last_daily_summary_date' = last_daily_summary_date
            /\ energy_management_logs' = energy_management_logs
            /\ last_log_cleanup' = last_log_cleanup
      ]_vars

\* C10 witness: a disabled tick on a first run, with the stored state absent.
C10_DisabledOnFirstRun ==
    /\ ticks > 0
    /\ telemetry.energy_management_enabled = FALSE
    /\ msg = NoMsg
    /\ energy_management_state = Absent
    /\ energy_management_logs = << >>

\* ------------------------------------------------------------------------
\* C11 - a throwing tick still commands the inverter off
\* ------------------------------------------------------------------------
\* The entry the catch handler appends at the current clock.
FatalErrorLogged ==
    \E i \in EntriesOfThisTick :
        /\ energy_management_logs[i].type = "ERROR"
        /\ energy_management_logs[i].priority = "critical"

C12_HistoryBoundedSortedUnique ==
    /\ Len(export_history_30days) <= 30
    /\ Len(export_history_30days) <= history_days
    /\ \A i \in 1..(Len(export_history_30days) - 1) :
          export_history_30days[i].date < export_history_30days[i + 1].date

\* A tick on a new date appended to a full history and the oldest day left it.
C12_OldestDayEvicted ==
    /\ ticks > 0
    /\ Len(export_history_30days) = history_days
    /\ export_history_30days[history_days].timestamp = now
    /\ export_history_30days[history_days].date = getLocalDateString(now)
    /\ export_history_30days[1].date = getLocalDateString(now) - (history_days - 1)

\* ------------------------------------------------------------------------
\* C13 - today's history entry is written once
\* ------------------------------------------------------------------------
\* The history entry of a local date, << >> when there is none.
EntryOfDate(h, d) == SelectSeq(h, LAMBDA e : e.date = d)

\* C13: a tick on a local date that already has a history entry leaves that
\* entry, and with it its export and target values, as the tick that created
\* it wrote them, whatever daily export the tick reads.
C13_TodaysEntryWrittenOnce ==
    [][ LET today == getLocalDateString(now')
            before == EntryOfDate(export_history_30days, today)
        IN  before # << >> =>
               /\ EntryOfDate(export_history_30days', today) = before
               /\ export_history_30days' = export_history_30days ]_vars

\* A validated tick read a daily export other than the one today's entry
\* holds, and the entry, created by an earlier tick, still holds the old one.
C13_LaterExportIgnored ==
    /\ ticks > 0
    /\ StateMachineOutput
    /\ \E i \in 1..Len(export_history_30days) :
          /\ export_history_30days[i].date = getLocalDateString(now)
          /\ export_history_30days[i].timestamp < now
          /\ export_history_30days[i].export # telemetry.export_daily

\* ------------------------------------------------------------------------
\* C14 - the event log is bounded and keeps the latest entries
\* ------------------------------------------------------------------------
\* The last k entries of a log.
LastEntries(logs, k) == SubSeq(logs, Len(logs) - k + 1, Len(logs))
\* The entries a log holds from before, and from, the execution at clock n.
OlderThan(logs, n) == SelectSeq(logs, LAMBDA e : e.timestamp < n)
AppendedAt(logs, n) == SelectSeq(logs, LAMBDA e : e.timestamp = n)
\* The log's last entry is the ERROR entry of the execution at clock n, or the
\* entry of the cleanup that this append triggered.
EndsWithErrorOf(logs, n) ==
    /\ logs # << >>
    /\ logs[Len(logs)].timestamp = n
    /\ \/ logs[Len(logs)].type = "ERROR"
       \/ /\ logs[Len(logs)].message = "Log cleanup"
          /\ Len(logs) > 1
          /\ logs[Len(logs) - 1].type = "ERROR"
          /\ logs[Len(logs) - 1].timestamp = n

\* C14: after the appends of a tick, those of log cleanup included, the log
\* holds at most max_log_entries entries: the entries appended by the tick, in
\* append order at its end, preceded by the most recent of the older entries;
\* while cleanup is not due only as many of the oldest entries are dropped as
\* the capacity requires; and the log of a tick that ends by logging an ERROR
\* ends with that entry.
C14_LogBoundedKeepsLatest ==
    [][ LET older == OlderThan(energy_management_logs', now')
            appended == AppendedAt(energy_management_logs', now')
        IN  /\ Len(energy_management_logs') <= max_log_entries
            /\ energy_management_logs' = older \o appended
            /\ Len(older) <= Len(energy_management_logs)
            /\ older = LastEntries(energy_management_logs, Len(older))
            /\ ( /\ last_log_cleanup' = last_log_cleanup
                 /\ Len(older) < Len(energy_management_logs) )
               => Len(energy_management_logs') = max_log_entries
            /\ (FatalErrorOutput' \/ ValidationFailureOutput')
               => EndsWithErrorOf(energy_management_logs', now') ]_vars

\* A tick appended to a log at capacity: the log is still at capacity, ends
\* with the tick's entries and has lost its oldest ones.
C14_AppendAtCapacity ==
    /\ ticks > 0
    /\ Len(energy_management_logs) = max_log_entries
    /\ energy_management_logs[max_log_entries].timestamp = now
    /\ energy_management_logs[1].timestamp < now
    /\ last_log_cleanup < now

\* A tick appended to a log at capacity whose entries had all aged out: the
\* cleanup removed them and logged its own entry.
C14_CleanupAtCapacity ==
    /\ ticks > 0
    /\ last_log_cleanup = now
    /\ \A i \in 1..Len(energy_management_logs) : energy_management_logs[i].timestamp = now
    /\ \E i \in 1..Len(energy_management_logs) : energy_management_logs[i].message = "Log cleanup"

\* ------------------------------------------------------------------------
\* C15 - the actuator table
\* ------------------------------------------------------------------------
\* The actions the table gives for a state; the LOAD_MANAGEMENT row leaves
\* enable_hws to the HWS control logic.
TableRow(state, actions) ==
    CASE state = EXPORT_PRIORITY ->
            actions = Actions(FALSE, NullSetpoint, FALSE, 3)
      [] state \in { BATTERY_STORAGE, SELF_CONSUME } ->
            actions = Actions(TRUE, Setpoint(0), FALSE, 3)
      [] state = LOAD_MANAGEMENT ->
            \E hws \in BOOLEAN : actions = Actions(TRUE, Setpoint(0), hws, 3)
      [] state = SAFE_MODE ->
            actions = Actions(FALSE, NullSetpoint, FALSE, 4)
      [] OTHER -> FALSE

\* The inputs object of the latest execution, as generateOutput receives it.
InputsOfTelemetry ==
    [ dailyExport |-> ReadInputs(telemetry).dailyExport,
      targetExport |-> Rat(MONTHLY_EXPORT_TARGETS[getMonth(now)], 1),
      generation |-> ReadInputs(telemetry).generation,
      gridPower |-> ReadInputs(telemetry).gridPower,
      batterySoc |-> ReadInputs(telemetry).batterySoc,
      batteryPower |-> ReadInputs(telemetry).batteryPower ]

\* C15: the command of every validated tick carries the actions the table
\* gives for its current_state, and set_ess_mode is true exactly when
\* grid_setpoint is 0; generateOutput gives the table's row for each of the
\* five states, SAFE_MODE included, on every store and reading.
C15_ActuatorTable ==
    /\ StateMachineOutput =>
          /\ TableRow(msg.current_state, msg.actions)
          /\ msg.actions.set_ess_mode = TRUE <=> msg.actions.grid_setpoint = Setpoint(0)
    /\ \A state \in STATES :
          \A g \in { generateOutput(Store, now, state, InputsOfTelemetry, "reason") } :
             /\ TableRow(state, g.output.actions)
             /\ g.output.actions.set_ess_mode = TRUE
                   <=> g.output.actions.grid_setpoint = Setpoint(0)

\* A validated tick in BATTERY_STORAGE commanded ESS control with setpoint 0.
C15_BatteryStorageCommand ==
    /\ ticks > 0
    /\ StateMachineOutput
    /\ msg.current_state = BATTERY_STORAGE
    /\ msg.actions = Actions(TRUE, Setpoint(0), FALSE, InverterOn)

\* ------------------------------------------------------------------------
\* C16 - HWS cooldown
\* ------------------------------------------------------------------------
\* A command that switches the HWS on.
CommandsHwsOn(m) == "actions" \in DOMAIN m /\ m.actions.enable_hws = TRUE
\* This step's command switches off the HWS that the previous command had on.
HwsCommandedOff ==
    /\ CommandsHwsOn(msg)
    /\ "actions" \in DOMAIN msg'
    /\ msg'.actions.enable_hws = FALSE
\* The clocks less than hws_cooldown_period after clock n.
WithinCooldownOf(n) == { n + d : d \in 1..(hws_cooldown_period * MinuteUnits - 1) }

\* C16: after a tick whose command switches the HWS from on to off, whatever
\* the cause, no tick less than hws_cooldown_period later commands it on
\* again: at every such clock and for every reading the next execution's
\* command has enable_hws = false.
C16_NoHwsOnWithinCooldown ==
    [][ HwsCommandedOff =>
          \A n \in WithinCooldownOf(now') : \A t \in Telemetry :
             \A r \in { RunTick(Store', n, t, FALSE) } : ~CommandsHwsOn(r.msg) ]_vars

\* ------------------------------------------------------------------------
\* C17 - range of the reported SOC and state
\* ------------------------------------------------------------------------
\* C17: the command of every validated tick reports a battery_soc in
\* [0, 100], readings in [-5, 0) and (100, 105] being clamped, and a
\* current_state that is one of the five engine states.
C17_ReportedSocInRange ==
    StateMachineOutput =>
       /\ msg.status.battery_soc >= 0
       /\ msg.status.battery_soc <= 100
       /\ msg.current_state \in STATES

\* ------------------------------------------------------------------------
\* C18 - persisted fields across a restart
\* ------------------------------------------------------------------------
\* C18: after a restart current_state, hws_status, hws_last_off_time and
\* every pending debounce request have the values they had after the last
\* completed tick, as do export_history, the target cache and the event log.
C18_RestartKeepsEngineFields ==
    [][ Restart =>
          /\ energy_management_state' = energy_management_state
          /\ hws_status' = hws_status
          /\ hws_last_off_time' = hws_last_off_time
          /\ state_change_request' = state_change_request
          /\ export_history_30days' = export_history_30days
          /\ target_calculation' = target_calculation
          /\ energy_management_logs' = energy_management_logs ]_vars

\* What a restart does keep: the keys written to the store 'file'.
RestartKeepsFileStore ==
    [][ Restart =>
          UNCHANGED << export_history_30days, target_calculation, energy_management_logs,
                       last_daily_summary_date, last_log_cleanup >> ]_vars

\* ------------------------------------------------------------------------
\* C19 - the adaptive target
\* ------------------------------------------------------------------------
\* The target the formula gives for a history at clock n, as an exact
\* rational: N = min(length, 30), base = sum / N, p = base / static.
ClaimedTarget(h, n) ==
    LET N == Min(Len(h), 30)
        sum == SumExport(SliceLast(h, N))
        static == MONTHLY_EXPORT_TARGETS[getMonth(n)]
    IN  IF N = 0 THEN Rat(static, 1)
        ELSE IF 10 * sum < 9 * static * N
        THEN Rat(Min(static * catchup_days + (static * N - sum),
                     2 * static * catchup_days), catchup_days)
        ELSE IF 10 * sum > 11 * static * N
        THEN Rat(Max(13 * static * N - 3 * sum, 8 * static * N), 10 * N)
        ELSE Rat(static, 1)

\* 0.8 * static <= target <= 2 * static
WithinTargetBand(target, n) ==
    LET static == MONTHLY_EXPORT_TARGETS[getMonth(n)] IN
    /\ 10 * target.n >= 8 * static * target.d
    /\ target.n <= 2 * static * target.d

\* C19: the target a tick works with is static when 0.9 <= p <= 1.1, both
\* boundaries included, min(static + (static * N - sum) / catchup_days,
\* 2 * static) when p < 0.9 and max(static - 0.3 * (base - static),
\* 0.8 * static) when p > 1.1, and lies between 0.8 * static and 2 * static.
C19_TargetFormula ==
    [][ StateMachineOutput' =>
          /\ msg'.status.export_target = ClaimedTarget(export_history_30days, now')
          /\ WithinTargetBand(msg'.status.export_target, now') ]_vars

\* The same with the two boundary ratios left out, and the band for every
\* history.
OffBoundary(h, n) ==
    LET N == Min(Len(h), 30)
        sum == SumExport(SliceLast(h, N))
        static == MONTHLY_EXPORT_TARGETS[getMonth(n)]
    IN  10 * sum # 9 * static * N /\ 10 * sum # 11 * static * N
TargetFormulaOffBoundary ==
    [][ StateMachineOutput' =>
          /\ OffBoundary(export_history_30days, now') =>
                msg'.status.export_target = ClaimedTarget(export_history_30days, now')
          /\ WithinTargetBand(msg'.status.export_target, now') ]_vars

\* ------------------------------------------------------------------------
\* C20 - fewer than three days of history
\* ------------------------------------------------------------------------
\* This step is an enabled execution that reached the target calculator.
TargetCalculated ==
    /\ ticks' = ticks + 1
    /\ telemetry'.energy_management_enabled = TRUE
    /\ ~FatalErrorOutput'

\* C20: a tick that finds fewer than 3 entries in export_history works with
\* the static monthly target of the current month and leaves the target
\* cache as it was.
C20_ShortHistoryUsesStaticTarget ==
    [][ (TargetCalculated /\ Len(export_history_30days) < 3) =>
          /\ target_calculation' = target_calculation
          /\ StateMachineOutput' =>
                msg'.status.export_target
                   = Rat(MONTHLY_EXPORT_TARGETS[getMonth(now')], 1) ]_vars

\* The part that holds: with no history at all.
EmptyHistoryUsesStaticTarget ==
    [][ (TargetCalculated /\ Len(export_history_30days) = 0) =>
          /\ target_calculation' = target_calculation
          /\ StateMachineOutput' =>
                msg'.status.export_target
                   = Rat(MONTHLY_EXPORT_TARGETS[getMonth(now')], 1) ]_vars

\* ------------------------------------------------------------------------
\* C21 - absent or unknown persisted state
\* ------------------------------------------------------------------------
\* The step is an enabled execution.
EnabledTick ==
    /\ ticks' = ticks + 1
    /\ telemetry'.energy_management_enabled = TRUE

\* The first entry the execution of the step appended is the SYSTEM entry of
\* the initialisation.
InitialisationLogged ==
    /\ Len(energy_management_logs') > Len(energy_management_logs)
    /\ LET first == energy_management_logs'[Len(energy_management_logs) + 1] IN
          /\ first.type = "SYSTEM"
          /\ first.priority = "high"
          /\ first.message = "Energy management system initialized"
          /\ first.timestamp = now'

\* A stored value that is none of the five states.
UnknownState == "UNKNOWN_STATE"

\* C21: an enabled tick that finds the persisted state absent appends the
\* SYSTEM entry of priority high and decides, persists and reports as the
\* same tick would from a persisted EXPORT_PRIORITY; the state machine never
\* reports an unknown state; and initializeStateIfNeeded turns an absent and
\* an unknown stored value into a persisted EXPORT_PRIORITY with that entry.
C21_AbsentStateBecomesExportPriority ==
    [][ /\ (EnabledTick /\ energy_management_state \notin STATES) =>
              /\ InitialisationLogged
              /\ energy_management_state' \in STATES
              /\ \A r \in { RunTick([Store EXCEPT !.state = EXPORT_PRIORITY],
                                    now', telemetry', FatalErrorOutput') } :
                    /\ msg' = r.msg
                    /\ energy_management_state' = r.st.state
                    /\ state_change_request' = r.st.request
              /\ ~StateMachineOutput' => energy_management_state' = EXPORT_PRIORITY
        /\ StateMachineOutput' => msg'.current_state \in STATES \ { SAFE_MODE }
        /\ \A i \in 1..Len(energy_management_logs') :
              energy_management_logs'[i].message # "Unknown state detected"
        /\ \A v \in { Absent, UnknownState } :
              \A after \in { initializeStateIfNeeded([Store EXCEPT !.state = v], now') } :
                 /\ after.state = EXPORT_PRIORITY
                 /\ Len(after.logs) > 0
                 /\ \E i \in 1..Len(after.logs) :
                       /\ after.logs[i].type = "SYSTEM"
                       /\ after.logs[i].priority = "high"
                       /\ after.logs[i].timestamp = now' ]_vars

\* The first tick of a first run, with the target already reached: it
\* initialised the state and moved on from EXPORT_PRIORITY to BATTERY_STORAGE.
C21_FirstRunLeavesExportPriority ==
    /\ ticks > 0
    /\ StateMachineOutput
    /\ energy_management_state = BATTERY_STORAGE
    /\ energy_management_logs[1].message = "Energy management system initialized"
    /\ energy_management_logs[1].timestamp = now

\* ------------------------------------------------------------------------
\* C22 - the daily summary
\* ------------------------------------------------------------------------
\* The positions of the DAILY_SUMMARY entries in the log.
DailySummaries ==
    { i \in 1..Len(energy_management_logs) : energy_management_logs[i].type = "DAILY_SUMMARY" }

C22_SummaryAfterMidnight ==
    /\ ticks > 0
    /\ getHours(now) = 0
    /\ \E i, j \in DailySummaries :
          /\ energy_management_logs[j].timestamp = now
          /\ energy_management_logs[i].date = energy_management_logs[j].date - 1

\* ------------------------------------------------------------------------
\* C23 - anti-oscillation
\* ------------------------------------------------------------------------
\* The step is a validated tick that changed current_state.
StateChanged ==
    /\ "debug" \in DOMAIN msg'
    /\ energy_management_state' # StateAtStart
\* The change of this step is the battery-protection override's.
ForcedByProtection ==
    /\ "debug" \in DOMAIN msg'
    /\ msg'.debug.state_reason = "Battery protection override"
\* The clocks of the earlier changes of current_state (every change appends a
\* STATE_CHANGE entry with the clock of its tick).
EarlierChanges ==
    { energy_management_logs[i].timestamp :
        i \in { j \in DOMAIN energy_management_logs :
                  energy_management_logs[j].type = "STATE_CHANGE" } }

\* C23: two changes of current_state are never less than
\* state_change_debounce_time apart unless the later one is forced by the
\* battery-protection override; in particular EXPORT_PRIORITY -> SELF_CONSUME
\* -> EXPORT_PRIORITY does not happen on consecutive ticks.
C23_ChangesDebounceApart ==
    [][ (StateChanged /\ ~ForcedByProtection) =>
          \A earlier \in EarlierChanges :
             now' - earlier >= state_change_debounce_time * MinuteUnits ]_vars

\* ------------------------------------------------------------------------
\* Executions with readings at the thresholds of the rules
\* ------------------------------------------------------------------------
\* Generation at and just below the two hysteresis thresholds (lines 595, 624).
GenerationThresholds ==
    { min_generation_to_stay_export - 1, min_generation_to_stay_export,
      min_generation_for_export - 1, min_generation_for_export }
\* Grid power just beyond and at the significant-export threshold (line 551),
\* and an import.
GridThresholds == { -significant_export_threshold - 1, -significant_export_threshold, 400 }
\* SOC at and just above min_soc_threshold, and a full battery.
SocThresholds == { min_soc_threshold, min_soc_threshold + 1, max_soc_threshold }
\* Battery power: discharging, idle, charging below battery_charging_threshold,
\* and at strong_charging_threshold.
BatteryThresholds == { -300, 0, battery_charging_threshold - 1, strong_charging_threshold }

ThresholdTelemetry ==
    { Reading(e, g, s, c, b) : e \in ExportDailyValues, g \in GridThresholds,
                               s \in GenerationThresholds, c \in SocThresholds,
                               b \in BatteryThresholds }

\* An execution with the module enabled and a reading at the thresholds.
TickAtThreshold ==
    /\ ticks < MaxTicks
    /\ \E dt \in Steps, t \in ThresholdTelemetry : Execute(now + dt, t, FALSE)

\* EXPORT_PRIORITY requests SELF_CONSUME (rule 5), leaves for SELF_CONSUME by
\* the default table with that request still stored, and then requests
\* EXPORT_PRIORITY (rule 3).
Overcast == Reading(5000, 400, min_generation_for_export - 1, 60, 0)
TwoRequestsPending ==
    << At(StartClock - 2 * MinuteUnits, Dull), At(StartClock - MinuteUnits, Overcast),
       At(StartClock, Sunny) >>

ThresholdRuns ==
    { ToExportPriority, ExportPriorityPending, ToBatteryStorage, ToSelfConsume,
      SelfConsumePending, ToLoadManagement, LoadManagementIdle, NightExportPriority,
      TwoRequestsPending }

InitThreshold == \E run \in ThresholdRuns : InitAfter(run)

NextThreshold == TickAtThreshold

SpecThreshold == InitThreshold /\ [][NextThreshold]_vars

\* ------------------------------------------------------------------------
\* C24 - hysteresis
\* ------------------------------------------------------------------------
\* The step is a validated daytime tick that starts in EXPORT_PRIORITY with
\* the export target not reached.
DaytimeExportPriorityTick ==
    /\ "debug" \in DOMAIN msg'
    /\ StateAtStart = EXPORT_PRIORITY
    /\ ~isNightTime(now')
    /\ msg'.status.target_reached = FALSE

DataProtectionLogged ==
    \E i \in EntriesOfThisTick :
       /\ energy_management_logs[i].type = "DATA_PROTECTION"
       /\ energy_management_logs[i].priority = "high"
\* The step is a validated tick that starts in EXPORT_PRIORITY.
ExportPriorityTick ==
    /\ "debug" \in DOMAIN msg'
    /\ StateAtStart = EXPORT_PRIORITY

\* C25: a validated tick in EXPORT_PRIORITY with grid_power below
\* -significant_export_threshold and generation below 500 W keeps
\* EXPORT_PRIORITY, appends a DATA_PROTECTION entry of priority high,
\* evaluates no other rule (it does not move to BATTERY_STORAGE even when the
\* target is reached) and leaves the debounce registry unchanged; with
\* grid_power exactly -significant_export_threshold the rule does not fire.
C25_StaleGenerationHoldsExport ==
    [][ /\ ( /\ ExportPriorityTick
             /\ telemetry'.grid_power < -significant_export_threshold
             /\ telemetry'.generation < generation_suspicious_below )
           => /\ energy_management_state' = EXPORT_PRIORITY
              /\ msg'.current_state = EXPORT_PRIORITY
              /\ msg'.debug.state_reason = "Maintaining export state: generation data stale"
              /\ DataProtectionLogged'
              /\ state_change_request' = state_change_request
        /\ ( /\ ExportPriorityTick
             /\ telemetry'.grid_power = -significant_export_threshold )
           => /\ ~DataProtectionLogged'
              /\ msg'.debug.state_reason # "Maintaining export state: generation data stale"
      ]_vars

\* C25 witness: the rule has held EXPORT_PRIORITY on a tick whose export
\* target was reached.
C25_StaleHoldWithTargetReached ==
    /\ ticks > 0
    /\ StateMachineOutput
    /\ msg.debug.state_reason = "Maintaining export state: generation data stale"
    /\ msg.status.target_reached = TRUE
    /\ energy_management_state = EXPORT_PRIORITY
    /\ DataProtectionLogged

\* A tick in EXPORT_PRIORITY with grid_power exactly at the threshold and the
\* target reached has moved to BATTERY_STORAGE.
C25_AtThresholdRuleDoesNotFire ==
    /\ ticks > 0
    /\ StateMachineOutput
    /\ telemetry.grid_power = -significant_export_threshold
    /\ telemetry.generation < generation_suspicious_below
    /\ msg.debug.state_reason = "Export target reached, switching to battery storage"

\* ------------------------------------------------------------------------
\* C26 - rule 3 at the entry threshold
\* ------------------------------------------------------------------------
\* The step is a daytime validated tick that rules 1 and 2 do not decide, with
\* the target not reached and generation exactly min_generation_for_export.
AtEntryThreshold ==
    /\ "debug" \in DOMAIN msg'
    /\ ~StaleHolds
    /\ ~ProtectionHolds
    /\ ~NightHolds
    /\ ~msg'.status.target_reached
    /\ telemetry'.generation = min_generation_for_export

\* C26: on a daytime validated tick that rules 1 and 2 do not decide, with the
\* target not reached and generation exactly min_generation_for_export, rule 3
\* decides whatever the battery power: from a state other than
\* EXPORT_PRIORITY it requests EXPORT_PRIORITY through the debounce registry
\* (a new request is stored and the state kept; a pending one is approved or
\* kept waiting), and in EXPORT_PRIORITY it keeps the state and leaves the
\* registry untouched.
C26_Rule3AtEntryThreshold ==
    [][ AtEntryThreshold =>
          IF StateAtStart # EXPORT_PRIORITY
          THEN /\ msg'.debug.state_reason
                     \in { "Reset to export priority", "Export priority requested" }
               /\ state_change_request[<< StateAtStart, EXPORT_PRIORITY >>] = 0
                     => /\ state_change_request'[<< StateAtStart, EXPORT_PRIORITY >>] = now'
                        /\ energy_management_state' = StateAtStart
               /\ DebounceOutcome(EXPORT_PRIORITY)
          ELSE /\ energy_management_state' = EXPORT_PRIORITY
               /\ msg'.debug.state_reason = ""
               /\ state_change_request' = state_change_request ]_vars

\* C26 witness: a tick in SELF_CONSUME with generation exactly at the
\* threshold and the battery discharging has started a request for
\* EXPORT_PRIORITY.
C26_RequestWhileDischarging ==
    /\ ticks > 0
    /\ StateMachineOutput
    /\ telemetry.generation = min_generation_for_export
    /\ telemetry.battery_power < 0
    /\ energy_management_state = SELF_CONSUME
    /\ msg.debug.state_reason = "Export priority requested"
    /\ state_change_request[<< SELF_CONSUME, EXPORT_PRIORITY >>] = now

\* ------------------------------------------------------------------------
\* C27 - an approval empties the registry
\* ------------------------------------------------------------------------
\* The debounce registry holds no request.
RegistryEmpty == \A k \in Transitions : state_change_request[k] = 0
\* The number of entries of the event log with the given message.
CountLogged(message) ==
    Cardinality({ i \in DOMAIN energy_management_logs :
                    energy_management_logs[i].message = message })

\* C27: when a tick approves a debounced transition, the registry is empty at
\* the end of that tick: the approved entry and every other entry are cleared.
C27_ApprovalEmptiesRegistry ==
    [][ (DebouncedChange \/ ApprovedEntryAppended) => RegistryEmpty' ]_vars

\* C27 witness: two requests had been started and none approved before the
\* tick that approved one of them; the registry is empty after it.
C27_ApprovedWithOtherPending ==
    /\ ticks > 0
    /\ StateMachineOutput
    /\ msg.debug.state_reason = "Reset to export priority"
    /\ \E i \in EntriesOfThisTick :
          energy_management_logs[i].message = "State change approved"
    /\ CountLogged("State change approved") = 1
    /\ CountLogged("State change request started") = 2
    /\ RegistryEmpty

\* ------------------------------------------------------------------------
\* C28 - the battery-protection override and the registry
\* ------------------------------------------------------------------------
\* C28: when the battery-protection override changes the state, no debounce
\* request is pending at the end of that tick: the entries started before the
\* forced transition are cleared by it.
C28_ForcedChangeEmptiesRegistry ==
    [][ (StateChanged /\ ForcedByProtection) => RegistryEmpty' ]_vars

\* ------------------------------------------------------------------------
\* C29 - the default table
\* ------------------------------------------------------------------------
\* The requesting condition of rule 4 on the readings of the tick.
Rule4ConditionHolds ==
    /\ PercentOfRatBelow(telemetry'.export_daily, msg'.status.export_target,
                         export_target_percentage)
    /\ msg'.status.battery_power > strong_charging_threshold
    /\ ~NightHolds
    /\ \/ telemetry'.generation >= min_generation_for_export
       \/ msg'.status.battery_power >= strong_charging_threshold
\* The step is a validated tick on which none of the override rules 1-5 matches.
NoOverrideMatches ==
    /\ "debug" \in DOMAIN msg'
    /\ ~StaleHolds
    /\ ~ProtectionHolds
    /\ ~Rule3ConditionHolds
    /\ ~Rule4ConditionHolds
    /\ ~(StateAtStart = EXPORT_PRIORITY /\ Rule5ConditionHolds)

\* The rows of the default table for EXPORT_PRIORITY, BATTERY_STORAGE and
\* SELF_CONSUME, on the readings of the tick (soc and battery power as the
\* engine read them); every other case keeps the state.
TableWithoutLoadManagement(state) ==
    LET reached == msg'.status.target_reached
        generation == telemetry'.generation
        soc == msg'.status.battery_soc
        batteryPower == msg'.status.battery_power
        excess == Max(0, -telemetry'.grid_power)
    IN  CASE state = EXPORT_PRIORITY ->
                IF reached THEN BATTERY_STORAGE
                ELSE IF /\ generation < 500
                        /\ soc > evening_self_consume_soc_threshold
                        /\ batteryPower <= 0
                THEN SELF_CONSUME
                ELSE state
          [] state = BATTERY_STORAGE ->
                IF soc >= max_soc_threshold /\ 10 * excess > 8 * hws_power_rating
                THEN LOAD_MANAGEMENT
                ELSE IF soc <= min_soc_threshold /\ batteryPower <= 0 THEN SELF_CONSUME
                ELSE IF batteryPower < 0 THEN SELF_CONSUME
                ELSE state
          [] state = SELF_CONSUME ->
                IF batteryPower > 0
                THEN IF reached THEN BATTERY_STORAGE ELSE EXPORT_PRIORITY
                ELSE state
          [] OTHER -> state
\* The same table with the row for LOAD_MANAGEMENT: with the HWS on and SOC or
\* generation dropped, SELF_CONSUME when the battery is low and not charging
\* and BATTERY_STORAGE otherwise.
TableWithLoadManagement(state) ==
    LET generation == telemetry'.generation
        soc == msg'.status.battery_soc
        batteryPower == msg'.status.battery_power
    IN  IF /\ state = LOAD_MANAGEMENT
           /\ hws_status
           /\ \/ soc <= max_soc_threshold - hws_soc_drop_threshold
              \/ generation < hws_generation_drop_threshold
        THEN IF soc <= min_soc_threshold /\ batteryPower <= 0
             THEN SELF_CONSUME ELSE BATTERY_STORAGE
        ELSE TableWithoutLoadManagement(state)

\* C29 as stated: when no override rule (1-5) matches, the next state is the
\* one the default table gives for EXPORT_PRIORITY, BATTERY_STORAGE and
\* SELF_CONSUME and is otherwise unchanged; it takes effect in the same tick
\* and the debounce registry is not written.
C29_DefaultTableAsStated ==
    [][ NoOverrideMatches =>
          /\ energy_management_state' = TableWithoutLoadManagement(StateAtStart)
          /\ msg'.current_state = energy_management_state'
          /\ state_change_request' = state_change_request ]_vars

\* C29 (amended): the same, with the table also holding the row for
\* LOAD_MANAGEMENT.
C29_DefaultTable ==
    [][ NoOverrideMatches =>
          /\ energy_management_state' = TableWithLoadManagement(StateAtStart)
          /\ msg'.current_state = energy_management_state'
          /\ state_change_request' = state_change_request ]_vars

\* C29 witness: a tick in BATTERY_STORAGE with a full, discharging battery and
\* excess generation has moved to LOAD_MANAGEMENT by the default table.
C29_LoadManagementTakesPrecedence ==
    /\ ticks > 0
    /\ StateMachineOutput
    /\ msg.debug.state_reason = "Battery full, activating load management"
    /\ telemetry.battery_power < 0
    /\ energy_management_state = LOAD_MANAGEMENT

\* ------------------------------------------------------------------------
\* C30 - leaving LOAD_MANAGEMENT
\* ------------------------------------------------------------------------
\* SOC or generation have dropped on the readings of the tick.
SocOrGenerationDropped ==
    \/ msg'.status.battery_soc <= max_soc_threshold - hws_soc_drop_threshold
    \/ telemetry'.generation < hws_generation_drop_threshold

\* C30: on a validated tick in LOAD_MANAGEMENT on which no override rule
\* decides and SOC or generation have dropped, the engine moves in that tick
\* to BATTERY_STORAGE, or to SELF_CONSUME when the battery is low and not
\* charging; it does not stay in LOAD_MANAGEMENT while they stay dropped.
C30_LoadManagementLeftWhenDropped ==
    [][ ( /\ NoOverrideMatches
          /\ StateAtStart = LOAD_MANAGEMENT
          /\ SocOrGenerationDropped )
        => energy_management_state' =
              IF /\ msg'.status.battery_soc <= min_soc_threshold
                 /\ msg'.status.battery_power <= 0
              THEN SELF_CONSUME ELSE BATTERY_STORAGE ]_vars

\* ------------------------------------------------------------------------
\* C31 - the HWS sub-controller
\* ------------------------------------------------------------------------
\* The step is a validated tick whose next state is LOAD_MANAGEMENT.
LoadManagementTick ==
    /\ "debug" \in DOMAIN msg'
    /\ msg'.current_state = LOAD_MANAGEMENT
\* The command the claim gives for the HWS, with the cooldown counted as
\* expired from the clock hws_last_off_time + wait on.
ClaimedHwsCommand(wait) ==
    LET dropped == SocOrGenerationDropped
        cooldownExpired == now' - hws_last_off_time >= wait
    IN  IF ~hws_status /\ cooldownExpired /\ ~dropped THEN TRUE
        ELSE IF hws_status /\ dropped THEN FALSE
        ELSE hws_status

HwsGoesOff ==
    /\ "debug" \in DOMAIN msg'
    /\ hws_status
    /\ msg'.actions.enable_hws = FALSE
\* The tick of the step appended an HWS_EVENT TURNED_OFF entry.
TurnedOffLogged ==
    \E i \in DOMAIN energy_management_logs' :
       /\ energy_management_logs'[i].timestamp = now'
       /\ energy_management_logs'[i].type = "HWS_EVENT"
       /\ energy_management_logs'[i].message = "TURNED_OFF"

\* C32: whenever the HWS goes from on to off on a validated tick, including
\* the tick on which a drop in generation or SOC takes the engine from
\* LOAD_MANAGEMENT to BATTERY_STORAGE, that tick sets hws_last_off_time to its
\* clock and appends an HWS_EVENT TURNED_OFF entry.
C32_HwsOffIsRecorded ==
    [][ HwsGoesOff => /\ hws_last_off_time' = now'
                      /\ TurnedOffLogged ]_vars

\* ------------------------------------------------------------------------
\* C33 - hws_status and the commanded HWS state
\* ------------------------------------------------------------------------
\* C33: after every tick that emits a command record (validated tick,
\* validation-failure tick or exception), the persisted hws_status equals the
\* enable_hws value of that command.
C33_HwsStatusIsLastCommand ==
    [][ "actions" \in DOMAIN msg' => hws_status' = msg'.actions.enable_hws ]_vars

\* On validated ticks hws_status is the enable_hws of the command.
HwsStatusIsLastValidatedCommand ==
    [][ "debug" \in DOMAIN msg' => hws_status' = msg'.actions.enable_hws ]_vars

\* ------------------------------------------------------------------------
\* C34 - the first tick of a date
\* ------------------------------------------------------------------------
\* The step is an enabled tick, not ended by an exception, on a local date
\* that has no history entry.
FirstTickOfDate ==
    /\ ticks' = ticks + 1
    /\ telemetry'.energy_management_enabled
    /\ "error" \notin DOMAIN msg'
    /\ EntryOfDate(export_history_30days, getLocalDateString(now')) = << >>
\* The history after appending entry e to history h within the window.
Slid(h, e) == IF Len(h) = history_days THEN Append(Tail(h), e) ELSE Append(h, e)

\* C34: the first enabled tick of a local date that has no history entry
\* appends exactly one entry for the date, holding the tick's daily export and
\* target; when the history already holds 30 entries the entry with the oldest
\* date is evicted and all the others are kept, also when the new date is in
\* another month.
C34_FirstTickAppendsEntry ==
    [][ FirstTickOfDate =>
          \E e \in { export_history_30days'[Len(export_history_30days')] } :
             /\ e.date = getLocalDateString(now')
             /\ e.export = telemetry'.export_daily
             /\ "debug" \in DOMAIN msg' => e.target = msg'.status.export_target
             /\ export_history_30days' = Slid(export_history_30days, e)
             /\ Len(EntryOfDate(export_history_30days', e.date)) = 1 ]_vars

\* C34 witness: the first tick of a new month was appended to a full history;
\* the oldest day left it and the 29 other days of the previous month stayed.
C34_WindowSlidIntoNewMonth ==
    /\ ticks > 0
    /\ Len(export_history_30days) = history_days
    /\ export_history_30days[history_days].timestamp = now
    /\ export_history_30days[history_days].export = telemetry.export_daily
    /\ \A i \in 1..history_days :
          export_history_30days[i].date = getLocalDateString(now) - (history_days - i)
    /\ MonthOfDay(export_history_30days[history_days].date)
          # MonthOfDay(export_history_30days[history_days - 1].date)

\* ------------------------------------------------------------------------
\* C35 - SAFE_MODE is never persisted
\* ------------------------------------------------------------------------
\* C35: starting from an absent persisted state or from one of
\* EXPORT_PRIORITY, BATTERY_STORAGE, LOAD_MANAGEMENT, SELF_CONSUME, no sequence
\* of ticks (valid, invalid, disabled or failing with an exception) makes the
\* persisted current_state SAFE_MODE; inverter_mode 4 is commanded only by the
\* exception handler.
C35_SafeModeNeverPersisted ==
    /\ energy_management_state
          \in { Absent, EXPORT_PRIORITY, BATTERY_STORAGE, LOAD_MANAGEMENT, SELF_CONSUME }
    /\ ("actions" \in DOMAIN msg /\ msg.actions.inverter_mode = InverterOff)
          => "error" \in DOMAIN msg

\* C35 witness: the exception handler has reported SAFE_MODE with inverter
\* mode 4 and the persisted state is still LOAD_MANAGEMENT.
C35_SafeModeReportedNotPersisted ==
    /\ ticks > 0
    /\ FatalErrorOutput
    /\ msg.current_state = SAFE_MODE
    /\ msg.actions.inverter_mode = InverterOff
    /\ energy_management_state = LOAD_MANAGEMENT

\* ------------------------------------------------------------------------
\* C36 - rule 4 is subsumed by rule 3
\* ------------------------------------------------------------------------
\* processStateTransition with the branch of rule 4 (lines 609-621) removed.
processStateTransition_WithoutRule4(st, n, currentState, inputs) ==
    IF currentState = EXPORT_PRIORITY /\ GenerationDataStale(inputs)
    THEN Decision(currentState, "Maintaining export state: generation data stale",
                  addPersistentLog(st, n, "DATA_PROTECTION",
                                   "Generation data appears stale", "high"))
    ELSE IF isBatteryProtectionActive(inputs.batterySoc, inputs.batteryPower)
    THEN IF currentState # EXPORT_PRIORITY
         THEN Decision(EXPORT_PRIORITY, "Battery protection override",
                       addPersistentLog(st, n, "BATTERY_PROTECTION",
                                        "Battery protection override triggered", "critical"))
         ELSE Decision(currentState, "Battery protection active", st)
    ELSE IF UnderTargetReset(n, inputs)
    THEN IF currentState # EXPORT_PRIORITY
         THEN DebouncedRequest(st, n, currentState, EXPORT_PRIORITY,
                               "Reset to export priority", "Export priority requested")
         ELSE Decision(currentState, "", st)
    ELSE IF HysteresisExit(n, currentState, inputs)
    THEN DebouncedRequest(st, n, currentState, SELF_CONSUME,
                          "Low generation and weak battery charging with safe SOC",
                          "Self consume requested")
    ELSE DefaultTransition(st, n, currentState, inputs)

\* The inputs object of the validated tick a step executes.
InputsOfStep ==
    [ dailyExport |-> telemetry'.export_daily,
      targetExport |-> msg'.status.export_target,
      generation |-> telemetry'.generation,
      gridPower |-> telemetry'.grid_power,
      batterySoc |-> msg'.status.battery_soc,
      batteryPower |-> msg'.status.battery_power ]
\* The store processStateTransition starts from in that tick, up to the log
\* entries of the history update.
StoreOfStep == initializeStateIfNeeded(Store, now')

\* C36: rule 4 never produces a decision of its own: on every validated tick
\* on which its condition holds the condition of rule 3 holds too, and
\* processStateTransition without the branch of rule 4 gives the same next
\* state, reason and debounce registry, which are those of the tick.
C36_Rule4Redundant ==
    [][ "debug" \in DOMAIN msg' =>
          /\ DeepShortfallReset(now', InputsOfStep) => UnderTargetReset(now', InputsOfStep)
          /\ \E with \in { processStateTransition(StoreOfStep, now', StateAtStart, InputsOfStep) },
                without \in { processStateTransition_WithoutRule4(StoreOfStep, now', StateAtStart,
                                                                 InputsOfStep) } :
                /\ with.nextState = without.nextState
                /\ with.stateReason = without.stateReason
                /\ with.st.request = without.st.request
                /\ energy_management_state' = without.nextState
                /\ msg'.debug.state_reason = without.stateReason
                /\ state_change_request' = without.st.request ]_vars

\* C36 witness: a validated daytime tick with the daily export below
\* export_target_percentage of the target and the battery charging above
\* strong_charging_threshold (the condition of rule 4) was decided by rule 3.
C36_DeepShortfallDecidedByRule3 ==
    /\ ticks > 0
    /\ StateMachineOutput
    /\ PercentOfRatBelow(telemetry.export_daily, msg.status.export_target,
                         export_target_percentage)
    /\ msg.status.battery_power > strong_charging_threshold
    /\ ~isNightTime(now)
    /\ msg.debug.state_reason \in { "Reset to export priority", "Export priority requested" }

\* ------------------------------------------------------------------------
\* C37 - requests and the current state
\* ------------------------------------------------------------------------
\* C37: after every tick, every non-zero registry entry (F, T) has F equal to
\* the persisted current_state: no request started in an earlier visit to F
\* is still pending when the engine is in another state or returns to F.
C37_RequestsOnlyForCurrentState ==
    \A k \in Transitions :
       state_change_request[k] # 0 => k[1] = energy_management_state

\* ------------------------------------------------------------------------
\* C38 - the values recorded in the history
\* ------------------------------------------------------------------------
\* C38: every entry of export_history holds a validated export value, in
\* [0, 200] kWh: a tick whose daily export fails validation does not create
\* the day's history entry.
C38_HistoryHoldsValidatedExports ==
    \A i \in DOMAIN export_history_30days :
       /\ export_history_30days[i].export >= 0
       /\ export_history_30days[i].export <= max_daily_export_kwh * WhPerKWh

\* ------------------------------------------------------------------------
\* C39 - the age-based log cleanup
\* ------------------------------------------------------------------------
\* The number of nested addPersistentLog calls made by one append to the log
\* of store st at clock n: the append itself and, when the cleanup it triggers
\* removes entries, the appends nested in the cleanup's own SYSTEM entry.
\* fuel bounds the count.
RECURSIVE NestedAppends(_, _, _)
NestedAppends(st, n, fuel) ==
    LET pushed == Append(st.logs, LogEntry(n, "SYSTEM", "Log cleanup", "low"))
        logs == IF Len(pushed) > max_log_entries
                THEN SliceLast(pushed, max_log_entries) ELSE pushed
        kept == SelectSeq(logs, LAMBDA log : log.timestamp > n - log_max_age_days * DayUnits)
    IN  IF fuel = 0 THEN 0
        ELSE IF n - st.last_log_cleanup < log_cleanup_interval_hours * HourUnits THEN 1
        ELSE IF Len(kept) < Len(logs)
        THEN 1 + NestedAppends([st EXCEPT !.logs = kept], n, fuel - 1)
        ELSE 1
\* The entries the cleanup logged at clock n.
CleanupsLoggedAt(logs, n) ==
    { i \in DOMAIN logs : logs[i].timestamp = n /\ logs[i].message = "Log cleanup" }

\* C39: every append to the log returns after at most two nested appends (the
\* cleanup's own SYSTEM entry triggers no further removal), and entries are
\* removed by age at most once per log_cleanup_interval_hours: a tick removes
\* by age at most once, only when the interval has passed since the last
\* cleanup, and sets last_log_cleanup to its clock.
C39_CleanupBoundedOncePerInterval ==
    [][ ticks' = ticks + 1 =>
          /\ NestedAppends(Store, now', max_log_entries) \in 1..2
          /\ NestedAppends(Store', now', max_log_entries) \in 1..2
          /\ last_log_cleanup' = now' => NestedAppends(Store', now', max_log_entries) = 1
          /\ Cardinality(CleanupsLoggedAt(energy_management_logs', now')) <= 1
          /\ CleanupsLoggedAt(energy_management_logs', now') # {}
                => /\ now' - last_log_cleanup >= log_cleanup_interval_hours * HourUnits
                   /\ last_log_cleanup' = now'
                   /\ \A i \in DOMAIN energy_management_logs' :
                         energy_management_logs'[i].timestamp
                            > now' - log_max_age_days * DayUnits
          /\ now' - last_log_cleanup < log_cleanup_interval_hours * HourUnits
                => last_log_cleanup' = last_log_cleanup ]_vars

\* C39 witness: a tick has removed entries by age, logged the cleanup once and
\* kept its own entries.
C39_CleanupRanOnce ==
    /\ ticks > 0
    /\ last_log_cleanup = now
    /\ Cardinality(CleanupsLoggedAt(energy_management_logs, now)) = 1
    /\ Len(energy_management_logs) > 1

\* ------------------------------------------------------------------------
\* C40 - the target within a day
\* ------------------------------------------------------------------------
\* The step is a validated tick on the local date of the previous validated
\* tick.
SameDateTicks ==
    /\ "debug" \in DOMAIN msg
    /\ "debug" \in DOMAIN msg'
    /\ getLocalDateString(msg.timestamp) = getLocalDateString(now')

\* C40: all enabled ticks of a local date use the same export target: the
\* target computed on the first tick of the date, before its history entry is
\* appended, is the target of every later tick of the date.
C40_SameTargetAllDay ==
    [][ SameDateTicks => msg'.status.export_target = msg.status.export_target ]_vars

====
